---- MODULE Spec2Model ----
(***************************************************************************)
(* goll: load-aware sliding-window limiter.                                *)
(* Window engine (window.go), limiter core and auto-retry (submit.go),     *)
(* composite coordinator (composite.go), sync transaction and codec        *)
(* (synchronization.go), configuration (factory.go).                       *)
(***************************************************************************)
EXTENDS Integers, Naturals, Sequences, FiniteSets, TLC

VARIABLES mode, cfg, tenants, now, store, last, hint, accLog, su, calls, tx, mutex,
          threads

vars ==
    <<mode, cfg, tenants, now, store, last, hint, accLog, su, calls, tx, mutex, threads>>

(***************************************************************************)
(* Bounds of the model.                                                    *)
(***************************************************************************)
\* the clock runs from StartTime to StartTime + MaxTicks
MaxTicks == 4
\* a request may carry a timestamp captured up to MaxSkew ms before it runs
MaxSkew == 2
\* tenant versions are explored up to MaxVersion
MaxVersion == 8

(***************************************************************************)
(* uint64 / int64 arithmetic.  The fields of windowSegment, tenant data    *)
(* and submitRequest are uint64: arithmetic wraps modulo UintMod, which    *)
(* stands for 2^64 (scaled to fit TLC's 32-bit integers).                  *)
(***************************************************************************)
UintMod == 2^16

UintMax == UintMod - 1

UAdd(a, b) == (a + b) % UintMod

USub(a, b) == (a - b) % UintMod

UMul(a, b) == (a * b) % UintMod

\* int64(x) of a uint64 x, and wrap-around of int64 results
ToInt64(x) == IF x >= UintMod \div 2 THEN x - UintMod ELSE x

WrapInt64(x) == ToInt64(x % UintMod)

Min(a, b) == IF a <= b THEN a ELSE b

(***************************************************************************)
(* float64 arithmetic (IEEE 754 binary64, round to nearest even), as used  *)
(* by factory.go and submit.go on the factors of the configuration.  A     *)
(* natural of any size is the sequence of its digits in base Limb, least   *)
(* significant first.                                                      *)
(***************************************************************************)
\* the digits of a natural are kept in base Limb: LimbBits bits each
LimbBits == 13

Limb == 2^LimbBits

RECURSIVE Trim(_)
\* without its leading zero digits
Trim(a) == IF a # <<>> /\ a[Len(a)] = 0 THEN Trim(SubSeq(a, 1, Len(a) - 1)) ELSE a

RECURSIVE Carry(_, _)
\* the digits of the number whose digit i is raw[i] + the carry c
Carry(raw, c) ==
    IF raw = <<>> THEN (IF c = 0 THEN <<>> ELSE <<c % Limb>> \o Carry(<<>>, c \div Limb))
    ELSE <<(raw[1] + c) % Limb>> \o Carry(Tail(raw), (raw[1] + c) \div Limb)

BigOfInt(n) == Carry(<<>>, n)

Digit(a, i) == IF i <= Len(a) THEN a[i] ELSE 0

RECURSIVE BigToInt(_)
BigToInt(a) == IF a = <<>> THEN 0 ELSE a[1] + Limb * BigToInt(Tail(a))

BigAdd(a, b) ==
    Carry([ i \in 1..(IF Len(a) >= Len(b) THEN Len(a) ELSE Len(b)) |->
              Digit(a, i) + Digit(b, i) ], 0)

RECURSIVE SumProducts(_, _, _, _)
\* the sum of a[i] * b[k + 1 - i] for i in lo..hi
SumProducts(a, b, k, i) ==
    IF i > Len(a) \/ i > k THEN 0
    ELSE (IF k + 1 - i <= Len(b) THEN a[i] * b[k + 1 - i] ELSE 0)
         + SumProducts(a, b, k, i + 1)

BigMul(a, b) ==
    IF a = <<>> \/ b = <<>> THEN <<>>
    ELSE Trim(Carry([ k \in 1..(Len(a) + Len(b) - 1) |-> SumProducts(a, b, k, 1) ], 0))

\* a * 2^k
BigShl(a, k) ==
    Trim([ i \in 1..(k \div LimbBits) |-> 0 ]
         \o Carry([ i \in 1..Len(a) |-> a[i] * 2^(k % LimbBits) ], 0))

\* a \div 2^k
BigShr(a, k) ==
    LET w == k \div LimbBits
        r == k % LimbBits
    IN  Trim([ i \in 1..(IF Len(a) > w THEN Len(a) - w ELSE 0) |->
                 (Digit(a, i + w) \div 2^r) + (Digit(a, i + w + 1) % 2^r) * 2^(LimbBits - r) ])

\* bit i of a, bit 0 being the least significant
Bit(a, i) == (Digit(a, i \div LimbBits + 1) \div 2^(i % LimbBits)) % 2

\* a % 2^k = 0
LowBitsZero(a, k) ==
    /\ \A i \in 1..Min(Len(a), k \div LimbBits) : a[i] = 0
    /\ Digit(a, k \div LimbBits + 1) % 2^(k % LimbBits) = 0

RECURSIVE IntBitLen(_)
IntBitLen(n) == IF n = 0 THEN 0 ELSE 1 + IntBitLen(n \div 2)

\* the number of bits of a
BitLen(a) ==
    IF Trim(a) = <<>> THEN 0
    ELSE LimbBits * (Len(Trim(a)) - 1) + IntBitLen(Trim(a)[Len(Trim(a))])

RECURSIVE BigDivSmall(_, _, _)
\* a \div q and a % q for a divisor q of one digit or so: rem is the
\* remainder brought down from the digits above
BigDivSmall(a, q, rem) ==
    IF a = <<>> THEN [quot |-> <<>>, rem |-> rem]
    ELSE LET cur == rem * Limb + a[Len(a)]
             rest == BigDivSmall(SubSeq(a, 1, Len(a) - 1), q, cur % q)
         IN  [quot |-> Append(rest.quot, cur \div q), rem |-> rest.rem]

\* a float64 that is not negative: the value m * 2^e, m a natural of 53 bits
\* at most
Float64(m, e) == [m |-> m, e |-> e]

\* rounding of the real number m * 2^e to the nearest value with n leading
\* bits, to the even one on a tie
RoundToBits(m, e, n) ==
    IF BitLen(m) <= n THEN Float64(Trim(m), e)
    ELSE LET k == BitLen(m) - n
             q == BigShr(m, k)
             up == /\ Bit(m, k - 1) = 1
                   /\ (~LowBitsZero(m, k - 1) \/ Bit(q, 0) = 1)
         IN  Float64(IF up THEN BigAdd(q, <<1>>) ELSE q, e + k)

\* rounding of the real number m * 2^e to the nearest float64, to the even
\* one on a tie
RoundToFloat64(m, e) == RoundToBits(m, e, 53)

RECURSIVE Compact(_)
\* the same value without the zero digits at the low end of m
Compact(f) ==
    IF f.m # <<>> /\ f.m[1] = 0 THEN Compact(Float64(Tail(f.m), f.e + LimbBits)) ELSE f

\* float64(x) of a uint64 x.  A uint64 of 64 bits keeps its 53 leading bits:
\* it is rounded to a multiple of 2^11, so that float64 of the largest uint64
\* is 2^64.  With UintMod standing for 2^64, the uint64 of 64 bits are the
\* values from UintMod \div 2 up, UintMod - k standing for 2^64 - k, and
\* they lose the same 11 bits; the values below stand for themselves and
\* are converted exactly
Float64OfUint(x) ==
    IF x < UintMod \div 2 THEN RoundToFloat64(BigOfInt(x), 0)
    ELSE RoundToBits(BigOfInt(x), 0, IntBitLen(x) - 11)

\* the float64 of the decimal literal f[1] / f[2], f[1] >= 0: the quotient is
\* computed to 55 bits or more, with one more bit telling whether the
\* division left a remainder
Float64OfLiteral(f) ==
    IF f[1] = 0 THEN Float64(<<>>, 0)
    ELSE LET need == 56 + IntBitLen(f[2]) - IntBitLen(f[1])
             w == IF need > 0 THEN (need + LimbBits - 1) \div LimbBits ELSE 0
             d == BigDivSmall(BigShl(BigOfInt(f[1]), w * LimbBits), f[2], 0)
         IN  Compact(RoundToFloat64(
                 BigAdd(BigShl(Trim(d.quot), 1), IF d.rem # 0 THEN <<1>> ELSE <<>>),
                 0 - w * LimbBits - 1))

FMul(a, b) == RoundToFloat64(BigMul(a.m, b.m), a.e + b.e)

FAdd(a, b) ==
    RoundToFloat64(BigAdd(BigShl(a.m, a.e - Min(a.e, b.e)), BigShl(b.m, b.e - Min(a.e, b.e))),
                   Min(a.e, b.e))

\* the integer part
Trunc(f) == IF f.e >= 0 THEN BigShl(f.m, f.e) ELSE BigShr(f.m, 0 - f.e)

\* math.Round: to the nearest integer, away from zero on a tie
Round(f) ==
    IF f.e >= 0 THEN f
    ELSE Float64(IF Bit(f.m, 0 - f.e - 1) = 1 THEN BigAdd(Trunc(f), <<1>>) ELSE Trunc(f), 0)

One == Float64(<<1>>, 0)

\* a < b for two naturals
BigLess(a, b) ==
    \E i \in 1..Len(Trim(b)) :
        /\ Digit(Trim(a), i) < Trim(b)[i]
        /\ \A j \in (i + 1)..(IF Len(Trim(a)) >= Len(Trim(b))
                              THEN Len(Trim(a)) ELSE Len(Trim(b))) :
               Digit(Trim(a), j) = Digit(Trim(b), j)

\* a < b
FLess(a, b) ==
    BigLess(BigShl(a.m, a.e - Min(a.e, b.e)), BigShl(b.m, b.e - Min(a.e, b.e)))

\* the builds of the program: the conversion to uint64 of a float64 that is
\* out of the range of uint64 depends on the target
Builds == {"amd64", "arm64"}

\* f < 2^64
InUint64Range(f) == BitLen(Trunc(f)) < IntBitLen(UintMod)

\* uint64(f): the integer part; from 2^64 up the result depends on the
\* build (2^63 on amd64, which converts f - 2^63 and sets the top bit, and
\* 2^64 - 1 on arm64, which saturates)
Uint64(build, f) ==
    IF InUint64Range(f) THEN BigToInt(Trunc(f))
    ELSE IF build = "amd64" THEN UintMod \div 2 ELSE UintMax

(***************************************************************************)
(* Configuration (factory.go).  A factor of Config is the decimal literal  *)
(* <<numerator, denominator>> it is written as, the denominator positive;  *)
(* durations are whole milliseconds.  Build is the build of the program.   *)
(***************************************************************************)
defaultMaxPenaltyCapFactor == <<1, 2>>

\* f < 0, f > 0 and f > 1.0 for a factor f: a literal and its float64 compare
\* the same way with 0.0 and with 1.0
Negative(f) == f[1] < 0

Positive(f) == f[1] > 0

AboveOne(f) == ~Negative(f) /\ FLess(One, Float64OfLiteral(f))

\* uint64(float64(x) * f) for a literal f
FloorMul(build, x, f) == Uint64(build, FMul(Float64OfUint(x), Float64OfLiteral(f)))

\* uint64(math.Round(f * float64(x))) for a literal f
RoundMul(build, x, f) == Uint64(build, Round(FMul(Float64OfLiteral(f), Float64OfUint(x))))

pickSegmentSize(windowSizeMillis) ==
    IF windowSizeMillis <= 0 THEN [err |-> TRUE, res |-> 0]
    ELSE IF windowSizeMillis % 20 # 0 THEN [err |-> TRUE, res |-> 0]
    ELSE IF windowSizeMillis \div 20 < 1 THEN [err |-> TRUE, res |-> 0]
    ELSE [err |-> FALSE, res |-> windowSizeMillis \div 20]

\* validateConfiguration: windowSegmentSizeMillis, picked when the
\* configuration gives none
windowSegmentSizeMillis(config) ==
    IF config.WindowSegmentSize = 0
    THEN pickSegmentSize(config.WindowSize).res
    ELSE config.WindowSegmentSize

\* float64(config.MaxLoad) * (1.0 + factor), factor the given or the default
\* MaxPenaltyCapFactor
absoluteMaxPenaltyCap(config) ==
    FMul(Float64OfUint(config.MaxLoad),
         FAdd(One, Float64OfLiteral(IF Positive(config.MaxPenaltyCapFactor)
                                    THEN config.MaxPenaltyCapFactor
                                    ELSE defaultMaxPenaltyCapFactor)))

\* span of a penalty: round(factor * numSegments), at least 1
penaltySegmentSpan(build, distFactor, numSegments) ==
    IF Positive(distFactor)
    THEN LET span == RoundMul(build, numSegments, distFactor)
         IN  IF span <= 0 THEN 1 ELSE span
    ELSE 1

\* rejectLoad: penalty := math.Round(factor * float64(load))
requestOverheadPenalty(factor, load) == Round(FMul(factor, Float64OfUint(load)))

\* the parsed configuration, when validateConfiguration returns no error
validateConfiguration(config) ==
    LET numSegments == config.WindowSize \div windowSegmentSizeMillis(config)
        overstep == Positive(config.OverstepPenaltyFactor)
        overhead == Positive(config.RequestOverheadPenaltyFactor)
    IN  [ MaxLoad |-> config.MaxLoad,
          WindowSize |-> config.WindowSize,
          WindowSegmentSize |-> windowSegmentSizeMillis(config),
          NumSegments |-> numSegments,
          SkipRetryInComputing |-> config.SkipRetryInComputing,
          ApplyOverstepPenalty |-> overstep,
          AbsoluteOverstepPenalty |->
              IF overstep
              THEN FloorMul(config.Build, config.MaxLoad, config.OverstepPenaltyFactor)
              ELSE 0,
          OverstepPenaltySegmentSpan |->
              IF overstep
              THEN penaltySegmentSpan(config.Build, config.OverstepPenaltyDistributionFactor,
                                      numSegments)
              ELSE 0,
          ApplyRequestOverheadPenalty |-> overhead,
          RequestOverheadPenaltyFactor |->
              IF overhead THEN Float64OfLiteral(config.RequestOverheadPenaltyFactor)
              ELSE Float64(<<>>, 0),
          RequestOverheadPenaltySegmentSpan |->
              IF overhead
              THEN penaltySegmentSpan(config.Build,
                                      config.RequestOverheadPenaltyDistributionFactor,
                                      numSegments)
              ELSE 0,
          ApplyPenaltyCapping |-> TRUE,
          AbsoluteMaxPenaltyCap |-> Uint64(config.Build, absoluteMaxPenaltyCap(config)),
          Build |-> config.Build ]

\* configuration is accepted by validateConfiguration (no error returned)
ValidConfig(config) ==
    /\ config.MaxLoad > 0
    /\ config.WindowSize > 0
    /\ ~Negative(config.MaxPenaltyCapFactor)
    /\ IF config.WindowSegmentSize = 0
       THEN ~pickSegmentSize(config.WindowSize).err
       ELSE config.WindowSegmentSize > 0
    /\ windowSegmentSizeMillis(config) <= config.WindowSize
    /\ config.WindowSize % windowSegmentSizeMillis(config) = 0
    /\ ~Negative(config.OverstepPenaltyFactor)
    /\ ~Negative(config.OverstepPenaltyDistributionFactor)
    /\ ~AboveOne(config.OverstepPenaltyDistributionFactor)
    /\ ~Negative(config.RequestOverheadPenaltyFactor)
    /\ ~Negative(config.RequestOverheadPenaltyDistributionFactor)
    /\ ~AboveOne(config.RequestOverheadPenaltyDistributionFactor)

\* the builds to tell apart for a configuration: one stands for all when
\* no conversion to uint64, of validateConfiguration or of the penalty of a
\* rejected load in loads, is out of range
BuildsOf(config, loads) ==
    IF /\ InUint64Range(absoluteMaxPenaltyCap(config))
       /\ InUint64Range(FMul(Float64OfUint(config.MaxLoad),
                              Float64OfLiteral(config.OverstepPenaltyFactor)))
       /\ \A load \in loads :
              InUint64Range(requestOverheadPenalty(
                  Float64OfLiteral(config.RequestOverheadPenaltyFactor), load))
    THEN {"amd64"}
    ELSE Builds

(***************************************************************************)
(* Tenant data and requests (load_limiter_default.go, submit.go).          *)
(***************************************************************************)
\* the deque holds *windowSegment pointers: Ref is the identity of the struct
\* pointed to, so that two entries with the same Ref are one struct
windowSegment(startTime, value, ref) ==
    [StartTime |-> startTime, Value |-> value, Ref |-> ref]

RECURSIVE SumOfValues(_)
\* the sum of the values of the segments of a queue
SumOfValues(q) == IF q = <<>> THEN 0 ELSE q[1].Value + SumOfValues(Tail(q))

\* getTenant: a tenant is created lazily with an empty queue and version 1
getTenant ==
    [ WindowQueue |-> <<>>, WasOver |-> FALSE, WindowTotal |-> 0, Version |-> 1 ]

locateSegmentStartTime(c, t) == (t \div c.WindowSegmentSize) * c.WindowSegmentSize

buildLoadRequest(c, t, load) ==
    [ RequestedLoad |-> load,
      RequestedTimestamp |-> t,
      RequestSegmentStartTime |-> locateSegmentStartTime(c, t) ]

markDirty(tn) == [tn EXCEPT !.Version = UAdd(@, 1)]

\* "if dirty { instance.markDirty(req) }"
markDirtyIf(dirty, tn) == IF dirty THEN markDirty(tn) ELSE tn

Front(q) == q[1]

Back(q) == q[Len(q)]

PopBack(q) == SubSeq(q, 1, Len(q) - 1)

PopFront(q) == SubSeq(q, 2, Len(q))

PushFront(q, s) == <<s>> \o q

\* a Ref no entry of q has: the identity of a newly allocated struct
NewRef(q) ==
    1 + CHOOSE m \in {0} \cup { q[k].Ref : k \in 1..Len(q) } :
            \A k \in 1..Len(q) : q[k].Ref <= m

\* identities carry no order: each Ref is renamed to the position of the
\* first entry that holds it
Pointers(q) ==
    [ k \in 1..Len(q) |->
        [q[k] EXCEPT !.Ref = CHOOSE j \in 1..k :
                                /\ q[j].Ref = q[k].Ref
                                /\ \A i \in 1..(j - 1) : q[i].Ref # q[k].Ref] ]

\* a write of Value through the pointer at index i
SetValue(q, i, v) ==
    [ k \in 1..Len(q) |-> IF q[k].Ref = q[i].Ref THEN [q[k] EXCEPT !.Value = v] ELSE q[k] ]


RECURSIVE USumValues(_)
\* sum of the segment values in uint64 arithmetic
USumValues(q) == IF q = <<>> THEN 0 ELSE UAdd(q[1].Value, USumValues(Tail(q)))

(***************************************************************************)
(* Window engine (window.go).                                              *)
(***************************************************************************)

\* ensureLatestNSegments, first loop: the segment cached in validSegments
\* under key startTime (the last of the first numSegments entries wins)
validSegmentAt(q, numSegments, startTime) ==
    LET idx == { i \in 1..Min(numSegments, Len(q)) : q[i].StartTime = startTime }
    IN  IF idx = {} THEN [found |-> FALSE, seg |-> windowSegment(startTime, 0, 0)]
        ELSE [found |-> TRUE, seg |-> q[CHOOSE i \in idx : \A j \in idx : j <= i]]

\* ensureLatestNSegments, first loop: whether the queue has to be rebuilt
rebuildQueue(c, q, latestSegmentTime, numSegments) ==
    \E i \in 0..(numSegments - 1) :
        \/ Len(q) <= i
        \/ q[i + 1].StartTime # USub(latestSegmentTime, UMul(i, c.WindowSegmentSize))

RECURSIVE keepOlderSegments(_, _)
\* ensureLatestNSegments, second loop: from the back, the segments strictly
\* older than the rebuilt range, up to the first one that is not
keepOlderSegments(q, rebuildSegmentsStartingAt) ==
    IF Len(q) > 0 /\ Back(q).StartTime < rebuildSegmentsStartingAt
    THEN Append(keepOlderSegments(PopBack(q), rebuildSegmentsStartingAt), Back(q))
    ELSE <<>>

ensureLatestNSegments(c, tn, req, numSegments) ==
    LET latestSegmentTime == req.RequestSegmentStartTime
        q == tn.WindowQueue
        rebuildSegmentsStartingAt ==
            USub(latestSegmentTime, UMul(numSegments - 1, c.WindowSegmentSize))
        latest == [ i \in 1..numSegments |->
                      LET v == validSegmentAt(q, numSegments,
                                   USub(latestSegmentTime, UMul(i - 1, c.WindowSegmentSize)))
                      IN  IF v.found THEN v.seg
                          ELSE [v.seg EXCEPT !.Ref = NewRef(q) + i] ]
    IN  IF ~rebuildQueue(c, q, latestSegmentTime, numSegments) THEN tn
        ELSE [tn EXCEPT !.WindowQueue =
                            Pointers(latest \o keepOlderSegments(q, rebuildSegmentsStartingAt))]

\* distributePenalty: the amounts added to the newest segments, newest first
segmentDistribution(amount, numSegmentsMax) ==
    LET small == (amount \div numSegmentsMax) < 1
        n == IF small THEN amount ELSE numSegmentsMax
        amountPerSegment == IF small THEN 1 ELSE amount \div numSegmentsMax
        rem == amount % n
    IN  [ i \in 1..n |-> IF i <= rem THEN amountPerSegment + 1 ELSE amountPerSegment ]

RECURSIVE USumSeq(_)
USumSeq(s) == IF s = <<>> THEN 0 ELSE UAdd(s[1], USumSeq(Tail(s)))

\* distributePenalty, last loop: dist[i] is added through the pointer at
\* index i of the queue and to the window total
addDistribution(tn, dist) ==
    [tn EXCEPT
       !.WindowQueue =
           [ k \in 1..Len(tn.WindowQueue) |->
               [tn.WindowQueue[k] EXCEPT !.Value =
                   UAdd(@, USumSeq([ i \in 1..Len(dist) |->
                                      IF tn.WindowQueue[i].Ref = tn.WindowQueue[k].Ref
                                      THEN dist[i]
                                      ELSE 0 ]))] ],
       !.WindowTotal = UAdd(@, USumSeq(dist))]

distributePenalty(c, tn, req, amount, numSegmentsMax) ==
    IF amount <= 0 THEN tn
    ELSE addDistribution(
             ensureLatestNSegments(c, tn, req,
                                   Len(segmentDistribution(amount, numSegmentsMax))),
             segmentDistribution(amount, numSegmentsMax))

RECURSIVE removeLoop(_, _, _)
\* removeFromOldestSegments: the loop over the oldest segments
removeLoop(q, total, amount) ==
    IF Len(q) > 0 /\ amount > 0
    THEN LET oldest == Back(q)
             whole == oldest.Value >= amount
             value == IF whole THEN oldest.Value - amount ELSE 0
         IN  removeLoop(IF value <= 0 THEN PopBack(SetValue(q, Len(q), value))
                                      ELSE SetValue(q, Len(q), value),
                        IF whole THEN USub(total, amount) ELSE USub(total, oldest.Value),
                        IF whole THEN 0 ELSE amount - oldest.Value)
    ELSE [queue |-> q, total |-> total, amount |-> amount]

removeFromOldestSegments(c, tn, req, amount) ==
    LET r == removeLoop(tn.WindowQueue, tn.WindowTotal, amount)
    IN  [tn EXCEPT
           !.WindowQueue = IF Len(r.queue) = 0
                           THEN <<windowSegment(req.RequestSegmentStartTime, 0, 1)>>
                           ELSE Pointers(r.queue),
           !.WindowTotal = r.total]

applyCapping(c, tn, req) ==
    IF ~c.ApplyPenaltyCapping THEN tn
    ELSE IF tn.WindowTotal > c.AbsoluteMaxPenaltyCap
         THEN removeFromOldestSegments(c, tn, req,
                                       tn.WindowTotal - c.AbsoluteMaxPenaltyCap)
         ELSE tn

RECURSIVE futureSegments(_, _)
\* rotateWindow: how many front segments the future-removal loop pops
futureSegments(q, expectedCurrentSegmentStartTime) ==
    IF q = <<>> \/ Front(q).StartTime <= expectedCurrentSegmentStartTime THEN 0
    ELSE 1 + futureSegments(PopFront(q), expectedCurrentSegmentStartTime)

RECURSIVE removeObsolete(_, _)
\* rotateWindow: pops from the back the segments not newer than removeBefore
removeObsolete(q, removeBefore) ==
    IF Len(q) > 0 /\ Back(q).StartTime <= removeBefore
    THEN removeObsolete(PopBack(q), removeBefore)
    ELSE q

\* rotateWindow: the removal of the obsolete segments of a queue of more
\* than one segment
removeObsoleteSegments(c, q, req) ==
    IF Len(q) > 1
    THEN removeObsolete(q, USub(req.RequestedTimestamp, c.WindowSize))
    ELSE q

\* distributePenalty returns at once when removedLoadToRestore is 0
rotateWindow(c, tn, req) ==
    LET expected == req.RequestSegmentStartTime
        queue == tn.WindowQueue
        removeBefore == USub(expected, c.WindowSize)
    IN  IF /\ Len(queue) > 0
           /\ Front(queue).StartTime = expected
           /\ Back(queue).StartTime > removeBefore
        THEN tn
        ELSE
        LET nFuture == futureSegments(queue, expected)
            removedLoadToRestore == USumValues(SubSeq(queue, 1, nFuture))
            q1 == SubSeq(queue, nFuture + 1, Len(queue))
            push == Len(q1) = 0 \/ Front(q1).StartTime # expected
            q2 == IF push THEN PushFront(q1, windowSegment(expected, 0, NewRef(q1))) ELSE q1
            q3 == removeObsoleteSegments(c, q2, req)
            removed == SubSeq(q2, Len(q3) + 1, Len(q2))
            t3 == [tn EXCEPT
                     !.WindowQueue = Pointers(q3),
                     !.WindowTotal =
                         USub(USub(@, removedLoadToRestore), USumValues(removed))]
            t4 == distributePenalty(c, t3, req, removedLoadToRestore, 1)
            dirty == push \/ Len(removed) > 0 \/ removedLoadToRestore > 0
        IN  markDirtyIf(dirty, t4)

RECURSIVE retryWalk(_, _, _, _)
\* computeRetryIn: the walk from the oldest segment; i segments visited so far
retryWalk(q, i, toFree, mostRecentSegmentRemovalTime) ==
    IF i < Len(q) /\ toFree > 0
    THEN LET segment == q[Len(q) - i]
         IN  retryWalk(q, i + 1,
                       IF segment.Value > 0
                       THEN WrapInt64(toFree - ToInt64(segment.Value))
                       ELSE toFree,
                       segment.StartTime)
    ELSE [toFree |-> toFree, time |-> mostRecentSegmentRemovalTime]

\* computeRetryIn: err is the returned error, panic the panic of line 201,
\* retryIn the duration in milliseconds
computeRetryIn(c, tn, req) ==
    LET none == [err |-> TRUE, panic |-> FALSE, retryIn |-> 0]
        toFree == WrapInt64(ToInt64(req.RequestedLoad) + ToInt64(tn.WindowTotal)
                            - ToInt64(c.MaxLoad))
        w == retryWalk(tn.WindowQueue, 0, toFree, 0)
        minSegmentAvailTime == UAdd(w.time, c.WindowSize)
    IN  IF req.RequestedLoad > c.MaxLoad THEN none
        ELSE IF toFree <= 0 THEN [err |-> FALSE, panic |-> FALSE, retryIn |-> 0]
        ELSE IF w.time = 0 \/ w.toFree > 0 THEN none
        ELSE IF minSegmentAvailTime < req.RequestedTimestamp
             THEN [err |-> FALSE, panic |-> TRUE, retryIn |-> 0]
        ELSE [err |-> FALSE, panic |-> FALSE,
              retryIn |-> minSegmentAvailTime - req.RequestedTimestamp]

(***************************************************************************)
(* Limiter core (submit.go).                                               *)
(***************************************************************************)
SubmitResult(accepted, retryInAvailable, retryIn) ==
    [Accepted |-> accepted, RetryInAvailable |-> retryInAvailable, RetryIn |-> retryIn]

\* probe once the window is rotated
probeRotated(c, tn, req) ==
    LET totalWouldBe == UAdd(tn.WindowTotal, req.RequestedLoad)
    IN  [tenant |-> tn, result |-> totalWouldBe <= c.MaxLoad]

probe(c, tn, req) == probeRotated(c, rotateWindow(c, tn, req), req)

\* acceptLoad; Front() of an empty deque panics before anything is changed
acceptLoad(c, tn, req) ==
    IF Len(tn.WindowQueue) = 0
    THEN [tenant |-> tn, panic |-> TRUE, res |-> SubmitResult(TRUE, FALSE, 0)]
    ELSE [tenant |->
            markDirty(applyCapping(c,
                [tn EXCEPT !.WasOver = FALSE,
                           !.WindowTotal = UAdd(@, req.RequestedLoad),
                           !.WindowQueue =
                               SetValue(@, 1, UAdd(Front(@).Value, req.RequestedLoad))],
                req)),
          panic |-> FALSE,
          res |-> SubmitResult(TRUE, FALSE, 0)]

\* rejectLoad: the penalty added by this rejection, 0 when none is
\* an overstep penalty at every rejection, whatever WasOver is
rejectPenaltyAlwaysOverstep(c, tn, req) ==
    [added |-> c.ApplyOverstepPenalty,
     kind |-> "overstep",
     amount |-> c.AbsoluteOverstepPenalty,
     span |-> c.OverstepPenaltySegmentSpan,
     dirty |-> TRUE]

rejectPenalty(c, tn, req) ==
    IF ~tn.WasOver
    THEN [added |-> c.ApplyOverstepPenalty,
          kind |-> "overstep",
          amount |-> c.AbsoluteOverstepPenalty,
          span |-> c.OverstepPenaltySegmentSpan,
          dirty |-> TRUE]
    ELSE LET penalty == requestOverheadPenalty(c.RequestOverheadPenaltyFactor,
                                               req.RequestedLoad)
             apply == c.ApplyRequestOverheadPenalty /\ ~FLess(penalty, One)
         IN  [added |-> apply,
              kind |-> "overhead",
              amount |-> IF apply THEN Uint64(c.Build, penalty) ELSE 0,
              span |-> c.RequestOverheadPenaltySegmentSpan,
              dirty |-> apply]

\* rejectLoad: which of its two distributePenalty calls a rejection on the
\* rotated tenant tn makes: "overstep", "overhead" or "none"
appliedPenalty(c, tn, req) ==
    IF rejectPenalty(c, tn, req).added THEN rejectPenalty(c, tn, req).kind ELSE "none"

\* rejectLoad: applyCapping follows a penalty that was added
applyCappingIf(added, c, tn, req) == IF added THEN applyCapping(c, tn, req) ELSE tn

\* rejectLoad up to markDirty: the penalty p, WasOver and the capping
rejectPenalized(c, tn, req, p) ==
    LET t1 == IF p.added THEN distributePenalty(c, tn, req, p.amount, p.span) ELSE tn
        t2 == [t1 EXCEPT !.WasOver = TRUE]
        t3 == applyCappingIf(p.added, c, t2, req)
    IN  markDirtyIf(p.dirty, t3)

\* rejectLoad from computeRetryIn on: r is what computeRetryIn returned
rejectResult(c, tn, r) ==
    [tenant |-> tn,
     panic |-> ~c.SkipRetryInComputing /\ r.panic,
     res |-> IF ~c.SkipRetryInComputing /\ ~r.err
             THEN SubmitResult(FALSE, TRUE, r.retryIn)
             ELSE SubmitResult(FALSE, FALSE, 0)]

\* rejectLoad on the penalized tenant
rejectRetryIn(c, tn, req) == rejectResult(c, tn, computeRetryIn(c, tn, req))

rejectLoad(c, tn, req) ==
    rejectRetryIn(c, rejectPenalized(c, tn, req, rejectPenalty(c, tn, req)), req)

\* the task of Submit after its probe p: acceptLoad or rejectLoad; res is
\* the SubmitResult of the call
submitProbed(c, p, req) ==
    IF p.result THEN acceptLoad(c, p.tenant, req) ELSE rejectLoad(c, p.tenant, req)

\* the task of Submit: probe, then acceptLoad or rejectLoad
submitTask(c, tn, req) == submitProbed(c, probe(c, tn, req), req)

\* the result of Probe after its probe p
probeResult(p) ==
    [tenant |-> p.tenant, panic |-> FALSE, res |-> SubmitResult(p.result, FALSE, 0)]

\* the task of Probe
probeTask(c, tn, req) == probeResult(probe(c, tn, req))

(***************************************************************************)
(* Serialization codec and sync transaction (synchronization.go).          *)
(* A payload "v1/<version>/<total>/<0|1>/<start>:<value>,..." is the       *)
(* sequence of its five "/"-separated tokens; the last one is the sequence *)
(* of its ","-separated segments, each the sequence of its ":"-separated   *)
(* numbers.  NoStatus is the empty string.                                 *)
(***************************************************************************)
NoStatus == <<>>

serializeStatus(tn) ==
    << "v1", tn.Version, tn.WindowTotal,
       IF tn.WasOver THEN "1" ELSE "0",
       [ i \in 1..Len(tn.WindowQueue) |->
           <<tn.WindowQueue[i].StartTime, tn.WindowQueue[i].Value>> ] >>

\* strconv.Atoi parses an int: a uint64 printed from 2^63 up is out of range
atoiFails(n) == n >= UintMod \div 2

\* strings.Split(s, ","): the empty string splits into one empty token
splitSegments(segstr) == IF segstr = <<>> THEN << <<>> >> ELSE segstr

\* restoreSerializedStatus, the loop over the segments from the last one:
\* the queue left behind, and whether a malformed segment stopped it
restoreQueue(splittedSegments) ==
    LET rLen == Len(splittedSegments)
        bad == { i \in 1..rLen :
                   \/ Len(splittedSegments[i]) # 2
                   \/ atoiFails(splittedSegments[i][1])
                   \/ atoiFails(splittedSegments[i][2]) }
        stop == IF bad = {} THEN 0 ELSE CHOOSE i \in bad : \A j \in bad : j <= i
    IN  [ err |-> bad # {},
          queue |-> [ k \in 1..(rLen - stop) |->
                        windowSegment(splittedSegments[stop + k][1],
                                      splittedSegments[stop + k][2], k) ] ]

\* a restore that takes the payload whatever its version
restoreSerializedStatusAnyVersion(serialized, tn) ==
    IF Len(serialized) < 1 \/ serialized[1] # "v1" \/ Len(serialized) # 5
    THEN [tenant |-> tn, err |-> TRUE]
    ELSE LET r == restoreQueue(splitSegments(serialized[5]))
         IN  IF atoiFails(serialized[2]) \/ atoiFails(serialized[3])
             THEN [tenant |-> tn, err |-> TRUE]
             ELSE IF r.err
                  THEN [tenant |-> [tn EXCEPT !.WindowQueue = r.queue], err |-> TRUE]
             ELSE [tenant |-> [ WindowQueue |-> r.queue,
                                WasOver |-> serialized[4] = "1",
                                WindowTotal |-> serialized[3],
                                Version |-> serialized[2] ],
                   err |-> FALSE]

restoreSerializedStatus(serialized, tn) ==
    IF Len(serialized) < 1 \/ serialized[1] # "v1" \/ Len(serialized) # 5
    THEN [tenant |-> tn, err |-> TRUE]
    ELSE LET remoteVersion == serialized[2]
             r == restoreQueue(splitSegments(serialized[5]))
         IN  IF atoiFails(remoteVersion) THEN [tenant |-> tn, err |-> TRUE]
             ELSE IF tn.Version = remoteVersion THEN [tenant |-> tn, err |-> FALSE]
             ELSE IF remoteVersion < tn.Version THEN [tenant |-> tn, err |-> TRUE]
             ELSE IF atoiFails(serialized[3]) THEN [tenant |-> tn, err |-> TRUE]
             ELSE IF r.err
                  THEN [tenant |-> [tn EXCEPT !.WindowQueue = r.queue], err |-> TRUE]
             ELSE [tenant |-> [ WindowQueue |-> r.queue,
                                WasOver |-> serialized[4] = "1",
                                WindowTotal |-> serialized[3],
                                Version |-> remoteVersion ],
                   err |-> FALSE]

\* withSyncTransaction up to the task: Lock, Fetch and restore; the tenant
\* the task starts from
syncFetch(adapter, status, tn) ==
    IF ~adapter \/ status = NoStatus THEN tn
    ELSE restoreSerializedStatus(status, tn).tenant

\* withSyncTransaction after the task: the status left in the remote store
syncWrite(adapter, readOnly, status, versionBefore, tn) ==
    IF adapter /\ ~readOnly /\ tn.Version > versionBefore
    THEN serializeStatus(tn)
    ELSE status

\* withSyncTransaction of a standalone limiter around task (probeTask or
\* submitTask) with an adapter that never fails
\* withSyncTransaction after the task: out is what the task left; a panic
\* of the task unwinds through the deferred Unlock without any write
syncCommit(adapter, readOnly, status, versionBefore, out) ==
    [ tenant |-> out.tenant,
      panic |-> out.panic,
      res |-> out.res,
      status |-> IF out.panic THEN status
                 ELSE syncWrite(adapter, readOnly, status, versionBefore, out.tenant) ]

\* withSyncTransaction from versionBefore on: the task runs on the fetched
\* tenant
syncTask(adapter, readOnly, status, c, fetched, req, isSubmit) ==
    syncCommit(adapter, readOnly, status, fetched.Version,
               IF isSubmit THEN submitTask(c, fetched, req) ELSE probeTask(c, fetched, req))

withSyncTransaction(adapter, readOnly, status, c, tn, req, isSubmit) ==
    syncTask(adapter, readOnly, status, c, syncFetch(adapter, status, tn), req, isSubmit)

(***************************************************************************)
(* Composite coordinator (composite.go).  cs and tns are the members'      *)
(* configurations and tenant data, in the order of Limiters.               *)
(***************************************************************************)

\* compositeLoadLimiterDefaultImpl.submit, first loop: member i is probed
\* and, when it rejects, rejectLoad is called on it
\* what the first loop keeps of a member: r is what rejectLoad returned
memberRejected(r) ==
    [probeResult |-> FALSE, tenant |-> r.tenant, panic |-> r.panic, res |-> r.res]

\* the first loop on one member after its probe p
memberProbed(c, p, sr) ==
    IF p.result
    THEN [probeResult |-> TRUE, tenant |-> p.tenant, panic |-> FALSE,
          res |-> SubmitResult(TRUE, FALSE, 0)]
    ELSE memberRejected(rejectLoad(c, p.tenant, sr))

\* a member the loop does not reach, a panic having unwound the call: its
\* tenant is left as it was and allAccepted is not touched
memberSkipped(tn) ==
    [probeResult |-> TRUE, tenant |-> tn, panic |-> FALSE,
     res |-> SubmitResult(TRUE, FALSE, 0)]

\* the first member of a loop whose step panics, Len + 1 when none does
firstPanic(steps) ==
    IF \E i \in DOMAIN steps : steps[i].panic
    THEN CHOOSE i \in DOMAIN steps :
             steps[i].panic /\ \A j \in 1..(i - 1) : ~steps[j].panic
    ELSE Len(steps) + 1

\* the first loop with every member visited, whatever panics
compositeProbeAll(cs, tns, t, load) ==
    [ i \in DOMAIN tns |->
        memberProbed(cs[i], probe(cs[i], tns[i], buildLoadRequest(cs[i], t, load)),
                     buildLoadRequest(cs[i], t, load)) ]

\* steps cut at the first member whose rejectLoad panics: the panic unwinds
\* submit and the members after it are not visited
compositeProbedUntilPanic(tns, steps) ==
    [ i \in DOMAIN tns |->
        IF i <= firstPanic(steps) THEN steps[i] ELSE memberSkipped(tns[i]) ]

\* the first loop: the members are visited in order up to the first one
\* whose rejectLoad panics
compositeProbePhase(cs, tns, t, load) ==
    compositeProbedUntilPanic(tns, compositeProbeAll(cs, tns, t, load))

\* what the first loop of submit saw of each member: whether it rejected
\* and the SubmitResult of its rejectLoad
memberResults(phase) ==
    [ i \in DOMAIN phase |-> [rejected |-> ~phase[i].probeResult, res |-> phase[i].res] ]

\* a first loop that keeps the RetryIn of the last rejecting member
highestWaitTimeOfLast(phase, n) ==
    IF \E i \in 1..n : ~phase[i].probeResult /\ phase[i].res.RetryInAvailable
    THEN phase[CHOOSE i \in 1..n :
                   /\ ~phase[i].probeResult /\ phase[i].res.RetryInAvailable
                   /\ \A j \in (i + 1)..n :
                          ~(~phase[j].probeResult /\ phase[j].res.RetryInAvailable)].res.RetryIn
    ELSE 0

RECURSIVE highestWaitTime(_, _)
\* the RetryIn kept while the members 1..n are visited in order
highestWaitTime(phase, n) ==
    IF n = 0 THEN 0
    ELSE LET h == highestWaitTime(phase, n - 1)
             r == phase[n]
         IN  IF /\ ~r.probeResult
                /\ r.res.RetryInAvailable
                /\ (h = 0 \/ r.res.RetryIn > h)
             THEN r.res.RetryIn
             ELSE h

\* the second loop with acceptLoad called on every member, whatever panics
compositeAcceptAll(cs, phase, t, load) ==
    [ i \in DOMAIN phase |->
        acceptLoad(cs[i], phase[i].tenant, buildLoadRequest(cs[i], t, load)) ]

\* the outcome of submit after the first loop phase, accepted being the
\* second loop on every member and highest the highestWaitTime of the first
compositeAccepted(phase, accepted, allAccepted, highest) ==
    [ tenants |-> [ i \in DOMAIN phase |->
                      IF allAccepted /\ i <= firstPanic(accepted)
                      THEN accepted[i].tenant
                      ELSE phase[i].tenant ],
      panic |-> \/ \E i \in DOMAIN phase : phase[i].panic
                \/ allAccepted /\ \E i \in DOMAIN phase : accepted[i].panic,
      res |-> SubmitResult(allAccepted, ~allAccepted /\ highest > 0, highest) ]

\* compositeLoadLimiterDefaultImpl.submit after the first loop: when all the
\* members probed true, acceptLoad is called on them in order up to the
\* first one that panics; a panic of the first loop unwinds the call before
compositeAcceptPhase(cs, phase, t, load) ==
    compositeAccepted(phase, compositeAcceptAll(cs, phase, t, load),
                      \A i \in DOMAIN phase : phase[i].probeResult,
                      highestWaitTime(phase, Len(phase)))

compositeSubmit(cs, tns, t, load) ==
    compositeAcceptPhase(cs, compositeProbePhase(cs, tns, t, load), t, load)

\* compositeLoadLimiterDefaultImpl.Probe: members are probed in order up to
\* the first one that rejects
\* p[i] is the probe of member i
compositeProbed(tns, p) ==
    LET rejecting == { i \in DOMAIN tns : ~p[i].result }
        first == IF rejecting = {} THEN Len(tns) + 1
                 ELSE CHOOSE i \in rejecting : \A j \in rejecting : i <= j
    IN  [ tenants |-> [ i \in DOMAIN tns |-> IF i <= first THEN p[i].tenant ELSE tns[i] ],
          panic |-> FALSE,
          res |-> SubmitResult(rejecting = {}, FALSE, 0) ]

compositeProbe(cs, tns, t, load) ==
    compositeProbed(tns, [ i \in DOMAIN tns |->
                             probe(cs[i], tns[i], buildLoadRequest(cs[i], t, load)) ])

(***************************************************************************)
(* Sync transactions on an adapter whose calls can fail.                   *)
(***************************************************************************)
\* the faults of the adapter during one transaction: the calls that return
\* an error, and the payloads that cannot be decoded ("garbled": a text
\* that is no v1 payload; "truncated": a v1 payload of a newer version
\* whose list of segments is cut after a start time)
FaultKinds == {"lock", "fetch", "garbled", "truncated", "write", "unlock"}

Faults == {{}} \cup { {k} : k \in FaultKinds }

\* the faults that matter to a call on the tenant key: none is observed on
\* the empty key, where no call of the adapter is made
FaultsOf(key) == IF key = "" THEN {{}} ELSE Faults

GarbledStatus == <<"garbage">>

TruncatedStatus(tn) == <<"v1", tn.Version + 1, 0, "0", << <<0>> >> >>

\* what Fetch returns to a standalone limiter
fetchedStatus(f, status, tn) ==
    IF "garbled" \in f THEN GarbledStatus
    ELSE IF "truncated" \in f THEN TruncatedStatus(tn)
    ELSE status

\* withSyncTransaction from Fetch to versionBefore: the tenant the task
\* starts from
syncRestore(f, fetched, tn) ==
    IF "fetch" \in f \/ fetched = NoStatus THEN tn
    ELSE restoreSerializedStatus(fetched, tn).tenant

\* the tenant keys of the calls: the empty key and the key of the tenant
TenantKeys == {"", "tenant"}

\* the record of a transaction: the adapter calls and the task in the order
\* they were made, the error returned and the payload given to Write
NoTransaction ==
    [ key |-> "", faults |-> {}, trace |-> <<>>, err |-> FALSE, changed |-> FALSE,
      payload |-> NoStatus ]

\* withSyncTransaction when Lock fails
syncLockFailed(key, f, status, tns) ==
    [ tenants |-> tns, panic |-> FALSE, res |-> SubmitResult(FALSE, FALSE, 0),
      status |-> status,
      tx |-> [ key |-> key, faults |-> f, trace |-> <<"Lock">>, err |-> TRUE,
               changed |-> FALSE, payload |-> NoStatus ] ]

\* withSyncTransaction on the empty tenant key: the error is returned before
\* any call of the adapter
syncNoTenant(key, f, status, tns) ==
    [ tenants |-> tns, panic |-> FALSE, res |-> SubmitResult(FALSE, FALSE, 0),
      status |-> status,
      tx |-> [ key |-> key, faults |-> f, trace |-> <<>>, err |-> TRUE,
               changed |-> FALSE, payload |-> NoStatus ] ]

\* withSyncTransaction with the write moved after the release of the lock
syncOutcomeWriteAfterUnlock(key, f, readOnly, status, changed, out, payload) ==
    [ tenants |-> out.tenants, panic |-> out.panic, res |-> out.res,
      status |-> IF ~out.panic /\ ~readOnly /\ changed /\ "write" \notin f
                 THEN payload ELSE status,
      tx |-> [ key |-> key,
               faults |-> f,
               trace |-> <<"Lock", "Fetch", "Task", "Unlock">>
                         \o (IF ~out.panic /\ ~readOnly /\ changed
                             THEN <<"Write">> ELSE <<>>),
               err |-> FALSE,
               changed |-> changed,
               payload |-> IF ~out.panic /\ ~readOnly /\ changed
                           THEN payload ELSE NoStatus ] ]

\* withSyncTransaction after the task: out is what the task left, changed
\* the comparison of the versions, payload the serialized status; the
\* deferred Unlock runs also when the task panics
syncOutcome(key, f, readOnly, status, changed, out, payload) ==
    [ tenants |-> out.tenants, panic |-> out.panic, res |-> out.res,
      status |-> IF ~out.panic /\ ~readOnly /\ changed /\ "write" \notin f
                 THEN payload ELSE status,
      tx |-> [ key |-> key,
               faults |-> f,
               trace |-> <<"Lock", "Fetch", "Task">>
                         \o (IF ~out.panic /\ ~readOnly /\ changed
                             THEN <<"Write">> ELSE <<>>)
                         \o <<"Unlock">>,
               err |-> FALSE,
               changed |-> changed,
               payload |-> IF ~out.panic /\ ~readOnly /\ changed
                           THEN payload ELSE NoStatus ] ]

\* the task of a public operation of a standalone limiter on the tenant tn;
\* stats reads the tenant
taskOf(op, c, tn, req) ==
    IF op = "submit" THEN submitTask(c, tn, req)
    ELSE IF op = "probe" THEN probeTask(c, tn, req)
    ELSE [tenant |-> tn, panic |-> FALSE, res |-> SubmitResult(FALSE, FALSE, 0)]

\* withSyncTransaction that takes every transaction for a writable one
syncRunWritable(key, f, op, status, versionBefore, out) ==
    syncOutcome(key, f, FALSE, status, out.tenant.Version > versionBefore,
                [tenants |-> <<out.tenant>>, panic |-> out.panic, res |-> out.res],
                serializeStatus(out.tenant))

\* loadLimiterDefaultImpl.withSyncTransaction from versionBefore on
syncRun(key, f, op, status, versionBefore, out) ==
    syncOutcome(key, f, op # "submit", status, out.tenant.Version > versionBefore,
                [tenants |-> <<out.tenant>>, panic |-> out.panic, res |-> out.res],
                serializeStatus(out.tenant))

\* loadLimiterDefaultImpl.withSyncTransaction after Lock
syncLocked(key, f, op, status, c, restored, req) ==
    syncRun(key, f, op, status, restored.Version, taskOf(op, c, restored, req))

\* withSyncTransaction that goes on when Lock fails
syncTransactionUnlocked(key, f, op, status, c, tn, req) ==
    IF key = "" THEN syncNoTenant(key, f, status, <<tn>>)
    ELSE syncLocked(key, f, op, status, c, syncRestore(f, fetchedStatus(f, status, tn), tn), req)

\* loadLimiterDefaultImpl.withSyncTransaction with a sync adapter
syncTransaction(key, f, op, status, c, tn, req) ==
    IF key = "" THEN syncNoTenant(key, f, status, <<tn>>)
    ELSE IF "lock" \in f THEN syncLockFailed(key, f, status, <<tn>>)
    ELSE syncLocked(key, f, op, status, c, syncRestore(f, fetchedStatus(f, status, tn), tn), req)

\* what Fetch returns to a composite limiter: the payloads of its members
\* joined by ';'
compositeFetchedStatus(f, status, tns) ==
    IF "garbled" \in f THEN <<GarbledStatus>>
    ELSE IF "truncated" \in f THEN [ i \in DOMAIN tns |-> TruncatedStatus(tns[i]) ]
    ELSE status

\* compositeLoadLimiterDefaultImpl.withSyncTransaction from Fetch to
\* versionsBefore
compositeSyncRestore(f, fetched, tns) ==
    IF "fetch" \in f \/ fetched = NoStatus \/ Len(fetched) # Len(tns) THEN tns
    ELSE [ i \in DOMAIN tns |-> restoreSerializedStatus(fetched[i], tns[i]).tenant ]

\* the task of a public operation of a composite limiter
compositeTaskOf(op, cs, tns, t, load) ==
    IF op = "submit" THEN compositeSubmit(cs, tns, t, load)
    ELSE IF op = "probe" THEN compositeProbe(cs, tns, t, load)
    ELSE [tenants |-> tns, panic |-> FALSE, res |-> SubmitResult(FALSE, FALSE, 0)]

\* compositeLoadLimiterDefaultImpl.withSyncTransaction from versionsBefore on
compositeSyncRun(key, f, op, status, restored, out) ==
    syncOutcome(key, f, op # "submit", status,
                \E i \in DOMAIN restored : out.tenants[i].Version # restored[i].Version,
                out, [ i \in DOMAIN restored |-> serializeStatus(out.tenants[i]) ])

\* compositeLoadLimiterDefaultImpl.withSyncTransaction after Lock
compositeSyncLocked(key, f, op, status, cs, restored, t, load) ==
    compositeSyncRun(key, f, op, status, restored, compositeTaskOf(op, cs, restored, t, load))

\* compositeLoadLimiterDefaultImpl.withSyncTransaction with a sync adapter
compositeSyncTransaction(key, f, op, status, cs, tns, t, load) ==
    IF key = "" THEN syncNoTenant(key, f, status, tns)
    ELSE IF "lock" \in f THEN syncLockFailed(key, f, status, tns)
    ELSE compositeSyncLocked(key, f, op, status, cs,
                             compositeSyncRestore(f, compositeFetchedStatus(f, status, tns), tns),
                             t, load)

(***************************************************************************)
(* The limiters under check.                                               *)
(***************************************************************************)
Config(maxLoad, windowSize, segmentSize, overstep, overstepDist, overhead, overheadDist, skip) ==
    [ MaxLoad |-> maxLoad,
      WindowSize |-> windowSize,
      WindowSegmentSize |-> segmentSize,
      OverstepPenaltyFactor |-> overstep,
      OverstepPenaltyDistributionFactor |-> overstepDist,
      RequestOverheadPenaltyFactor |-> overhead,
      RequestOverheadPenaltyDistributionFactor |-> overheadDist,
      MaxPenaltyCapFactor |-> <<0, 1>>,
      SkipRetryInComputing |-> skip,
      Build |-> "amd64" ]

\* the configuration config of a program built for b
OnBuild(config, b) == [config EXCEPT !.Build = b]

\* no penalty; overstep penalty over the whole window; request overhead
\* penalty on the newest segment; both penalties without RetryIn
Configs ==
    { Config(2, 4, 2, <<0, 1>>, <<0, 1>>, <<0, 1>>, <<0, 1>>, FALSE),
      Config(2, 4, 2, <<1, 1>>, <<1, 1>>, <<0, 1>>, <<0, 1>>, FALSE),
      Config(3, 3, 1, <<1, 2>>, <<0, 1>>, <<1, 2>>, <<1, 2>>, FALSE),
      Config(2, 4, 2, <<1, 2>>, <<1, 2>>, <<1, 2>>, <<1, 1>>, TRUE) }

\* the configuration shared by the peers of a sync adapter
SyncConfigs ==
    { Config(2, 4, 2, <<0, 1>>, <<0, 1>>, <<0, 1>>, <<0, 1>>, FALSE) }

\* an overstep penalty of 3 spread over the three segments of the window
SpreadConfigs ==
    { Config(2, 3, 1, <<3, 2>>, <<1, 1>>, <<0, 1>>, <<0, 1>>, FALSE) }

\* the members of the composite limiters
CompositeConfigs ==
    { << Config(2, 4, 2, <<1, 2>>, <<1, 1>>, <<1, 2>>, <<0, 1>>, FALSE),
         Config(3, 2, 2, <<0, 1>>, <<0, 1>>, <<1, 2>>, <<0, 1>>, FALSE) >> }

\* the clock's first value, in milliseconds since the epoch
StartTime == 8

\* requested loads: 1..MaxRequestedLoad and the largest uint64
MaxRequestedLoad == 3

Loads == 1..MaxRequestedLoad \cup {UintMax}

\* the clock's last value and the requested loads of the peers of a sync
\* adapter and of a composite limiter
MaxCompositeTicks == 2

MaxSyncLoad == 2

\* the clock's first value: an early limiter runs on a clock that starts at
\* the epoch (Config.TimeFunc is the caller's)
\* the clock's last value and the largest timeout of a limiter whose
\* SubmitUntil is called
MaxUntilTicks == 4

MaxTimeout == 3

\* the largest load of the threads beside the one in SubmitUntil, and the
\* number of their calls
MaxUntilLoad == 2

MaxUntilCalls == 2

\* IsComposite() of the limiter under check
IsComposite(m) == m \in {"composite", "compositeUntil"}

\* the limiter has a sync adapter whose calls can fail
IsPeerAdapter(m) == m \in {"adapter", "earlyAdapter"}

IsAdapter(m) == IsPeerAdapter(m) \/ m = "compositeAdapter"

\* the clock's last value of a limiter with such an adapter, and the number
\* of public operations followed on it
MaxAdapterTicks == 2

MaxAdapterCalls == 3

\* the public operations of the limiter are called by concurrent threads that
\* take its mutex
IsThreads(m) == m \in {"threads", "earlyThreads", "compositeThreads"}

\* the threads, the clock's last value and the number of calls followed on a
\* limiter called by concurrent threads
NumThreads == 2

MaxThreadTicks == 4

MaxThreadCalls == 3

Threads == 1..NumThreads

\* the limiter's SubmitUntil is called
IsUntil(m) == m \in {"until", "earlyUntil", "compositeUntil"}

Epoch(m) ==
    IF m \in {"early", "earlyUntil", "earlyAdapter", "earlyThreads", "earlyStandalone"}
    THEN 0 ELSE StartTime

Horizon(m) ==
    Epoch(m) + (IF IsUntil(m) THEN MaxUntilTicks
                ELSE IF IsAdapter(m) THEN MaxAdapterTicks
                ELSE IF IsThreads(m) THEN MaxThreadTicks
                ELSE IF m \in {"composite", "sync"} THEN MaxCompositeTicks
                ELSE MaxTicks)

LoadsOf(m) ==
    IF m = "sync" \/ IsAdapter(m) \/ IsThreads(m) THEN 1..MaxSyncLoad
    ELSE IF m \in {"early", "earlyStandalone"} THEN 1..MaxRequestedLoad
    ELSE IF IsUntil(m) THEN 1..MaxUntilLoad
    ELSE Loads

\* standalone: one limiter called by several threads, each capturing its
\* timestamp before it takes the limiter's lock; sequential: one limiter,
\* one caller; early: one limiter, one caller, on a clock that starts at the
\* epoch; composite: a composite of two members; sync: two peers of
\* the same configuration sharing a sync adapter, and (instance 3) one
\* limiter without adapter that is given the same calls in the same order;
\* until, earlyUntil and compositeUntil: a standalone limiter, an early one
\* and a composite one on which one thread calls SubmitUntil while other
\* threads call Submit
\* adapter, earlyAdapter and compositeAdapter: two peers sharing a sync
\* adapter, one limiter with a sync adapter on a clock that starts at the
\* epoch, and a composite limiter with a sync adapter; the calls of the
\* adapters can fail
\* threads, earlyThreads and compositeThreads: a standalone limiter, one on a
\* clock that starts at the epoch and a composite limiter, called by
\* concurrent threads that block on the limiter's mutex
\* earlyStandalone: as standalone, on a clock that starts at the epoch and
\* with an overstep penalty spread over the whole window
Modes ==
    {"standalone", "sequential", "early", "composite", "sync",
     "until", "earlyUntil", "compositeUntil", "adapter", "earlyAdapter",
     "compositeAdapter", "threads", "earlyThreads", "compositeThreads",
     "earlyStandalone"}

Instances == 1..3

Reference == 3

Peers(m) == IF m \in {"sync", "adapter"} THEN {1, 2} ELSE {1}

Members == <<1, 2>>

\* the timestamps a request that runs now may carry: Probe and Submit read
\* the clock before they take the limiter's lock and the lock of the sync
\* adapter, so that the request of a thread or of a peer that waited for
\* either carries an earlier timestamp; the one caller of a sequential or of
\* an early limiter never waits
Timestamps(m, clock) ==
    IF m \in {"sequential", "early"}
    THEN {clock}
    ELSE { t \in (clock - MaxSkew)..clock : t >= Epoch(m) }

NoOp ==
    [ op |-> "none", inst |-> 0, t |-> 0, load |-> 0, res |-> SubmitResult(FALSE, FALSE, 0),
      panic |-> FALSE, ref |-> FALSE, retried |-> FALSE, penalty |-> "none",
      members |-> <<>> ]

NoHint == [valid |-> FALSE, load |-> 0, from |-> 0, due |-> 0]

\* the thread of SubmitUntil before its call: pc is its position, error the
\* Error of the SubmitUntilResult ("nil" when none), attempts and waited
\* its AttemptsNumber and WaitedFor, errAttempts and errWaited the fields of
\* a LoadRequestTimeout, t the clock when the attempt under way came to its
\* call of Submit (0 outside an attempt)
NoCall ==
    [ pc |-> "idle", load |-> 0, timeout |-> 0, timeoutAt |-> 0, attempts |-> 0,
      waited |-> 0, retryIn |-> 0, wakeAt |-> 0, error |-> "nil",
      errAttempts |-> 0, errWaited |-> 0, t |-> 0 ]

\* the sync.Mutex of the limiter and those of the members of a composite:
\* the thread that holds each, 0 when it is free
NoHolder == [limiter |-> 0, members |-> <<0, 0>>]

\* a thread outside any call: pc is its position in a public operation (idle,
\* waiting for the mutex, holding it, at the timeout check of submitUntil,
\* sleeping), op the operation, t the clock it read before Lock, s the
\* record of its SubmitUntil
IdleThread == [pc |-> "idle", op |-> "none", load |-> 0, t |-> 0, s |-> NoCall]

InitMode(m) ==
    /\ mode = m
    /\ IF IsComposite(m) \/ m \in {"compositeAdapter", "compositeThreads"}
       THEN \E cc \in CompositeConfigs :
               /\ \A i \in 1..2 : ValidConfig(cc[i])
               /\ \E b \in BuildsOf(cc[1], Loads) \cup BuildsOf(cc[2], Loads) :
                  cfg = [ i \in Instances |->
                            validateConfiguration(OnBuild(cc[IF i = 2 THEN 2 ELSE 1], b)) ]
       ELSE \E c \in (IF m = "sync" \/ IsPeerAdapter(m) \/ IsThreads(m)
                       THEN SyncConfigs
                       ELSE IF m = "earlyStandalone" THEN SpreadConfigs
                       ELSE Configs) :
               /\ ValidConfig(c)
               /\ \E b \in BuildsOf(c, Loads) :
                  cfg = [ i \in Instances |-> validateConfiguration(OnBuild(c, b)) ]
    /\ tenants = [ i \in Instances |-> getTenant ]
    /\ now = Epoch(m)
    /\ store = NoStatus
    /\ last = NoOp
    /\ hint = NoHint
    /\ accLog = <<>>
    /\ su = NoCall
    /\ calls = 0
    /\ tx = NoTransaction
    /\ mutex = NoHolder
    /\ threads = [ k \in Threads |-> IdleThread ]

\* the states of a tenant given to serializeStatus and restoreSerializedStatus:
\* a limiter whose MaxLoad is half the range accepts loads up to it, and its
\* tenants hold one or two segments of the window that ends at the clock,
\* newest first, with the total of their values; WasOver is left by the
\* last Submit, and the version has grown by one for each segment created
\* and at least by one for each segment that holds load
MaxRestoreVersion == 5

RestoreClock == StartTime + 2

RestoreConfigs ==
    { Config(UintMod \div 2, 4, 2, <<0, 1>>, <<0, 1>>, <<0, 1>>, <<0, 1>>, FALSE) }

RestoreValues == {0, 1, UintMod \div 2}

RestoreQueues ==
    { <<windowSegment(t, v, 1)>> : t \in {StartTime, RestoreClock}, v \in RestoreValues }
    \cup { <<windowSegment(RestoreClock, v, 1), windowSegment(StartTime, w, 2)>> :
             v \in RestoreValues, w \in RestoreValues }

RestoreStates ==
    {getTenant}
    \cup { tn \in [ WindowQueue : RestoreQueues, WasOver : BOOLEAN,
                     WindowTotal : {0, 1, 2, UintMod \div 2},
                     Version : 2..MaxRestoreVersion ] :
             /\ tn.WindowTotal = SumOfValues(tn.WindowQueue)
             /\ tn.WindowTotal <= UintMod \div 2
             /\ tn.Version >= 1 + Len(tn.WindowQueue)
                                 + Len(SelectSeq(tn.WindowQueue, LAMBDA e : e.Value > 0)) }

\* a local tenant and the tenant of a peer, whose serialization the local
\* one is about to restore
InitRestore ==
    /\ mode = "restore"
    /\ \E c \in RestoreConfigs :
          /\ ValidConfig(c)
          /\ \E b \in BuildsOf(c, Loads) :
             cfg = [ i \in Instances |-> validateConfiguration(OnBuild(c, b)) ]
    /\ \E local \in RestoreStates, remote \in RestoreStates :
          tenants = [ i \in Instances |->
                        IF i = 1 THEN local ELSE IF i = 2 THEN remote ELSE getTenant ]
    /\ now = RestoreClock
    /\ store = NoStatus
    /\ last = NoOp
    /\ hint = NoHint
    /\ accLog = <<>>
    /\ su = NoCall
    /\ calls = 0
    /\ tx = NoTransaction
    /\ mutex = NoHolder
    /\ threads = [ k \in Threads |-> IdleThread ]

Init == (\E m \in Modes : InitMode(m)) \/ InitRestore

\* restoreSerializedStatus on the local tenant, of the serialization of the
\* peer's tenant
Restore ==
    \E r \in { restoreSerializedStatus(serializeStatus(tenants[2]), tenants[1]) } :
        /\ mode = "restore"
        /\ last.op = "none"
        /\ tenants' = [tenants EXCEPT ![1] = r.tenant]
        /\ store' = serializeStatus(tenants[2])
        /\ last' = [NoOp EXCEPT !.op = "restore", !.inst = 1, !.t = now]
        /\ tx' = [NoTransaction EXCEPT !.key = "tenant", !.err = r.err,
                                       !.payload = serializeStatus(tenants[2])]
        /\ UNCHANGED <<mode, cfg, now, hint, accLog, su, calls, mutex, threads>>

\* the clock advances by one millisecond
Tick ==
    /\ now < Horizon(mode)
    /\ now' = now + 1
    /\ accLog' = SelectSeq(accLog, LAMBDA e : e.t + cfg[1].WindowSize > now + 1)
    /\ UNCHANGED <<mode, cfg, tenants, store, last, hint, su, calls, tx, mutex, threads>>

\* the accepted load, per timestamp, of the last WindowSize milliseconds
Accepted(log, t, load) ==
    IF log # <<>> /\ log[Len(log)].t = t
    THEN [log EXCEPT ![Len(log)].load = @ + load]
    ELSE Append(log, [t |-> t, load |-> load])

\* the retry hint kept for the caller of a sequential limiter
NextHint(res, t, load) ==
    IF mode = "sequential" /\ ~res.Accepted /\ res.RetryInAvailable
    THEN [valid |-> TRUE, load |-> load, from |-> t, due |-> t + res.RetryIn]
    ELSE NoHint

\* loadLimiterDefaultImpl.Probe on instance i, by a thread that read the
\* clock at t
Probe(i, t, load) ==
    \E r \in { withSyncTransaction(mode = "sync", TRUE, store, cfg[i], tenants[i],
                                   buildLoadRequest(cfg[i], t, load), FALSE) },
       ref \in { probeTask(cfg[Reference], tenants[Reference],
                        buildLoadRequest(cfg[Reference], t, load)) } :
        /\ ~IsComposite(mode)
        /\ tenants' = [tenants EXCEPT ![i] = r.tenant,
                                      ![Reference] = IF mode = "sync" THEN ref.tenant ELSE @]
        /\ store' = r.status
        /\ last' = [ op |-> "probe", inst |-> i, t |-> t, load |-> load, res |-> r.res,
                     panic |-> r.panic, ref |-> mode = "sync" /\ ref.res.Accepted,
                     retried |-> FALSE, penalty |-> "none", members |-> <<>> ]
        /\ UNCHANGED <<mode, cfg, now, hint, accLog>>

\* loadLimiterDefaultImpl.Submit on instance i, by a thread that read the
\* clock at t
Submit(i, t, load) ==
    \E r \in { withSyncTransaction(mode = "sync", FALSE, store, cfg[i], tenants[i],
                                   buildLoadRequest(cfg[i], t, load), TRUE) },
       ref \in { submitTask(cfg[Reference], tenants[Reference],
                        buildLoadRequest(cfg[Reference], t, load)) } :
        /\ ~IsComposite(mode)
        /\ tenants' = [tenants EXCEPT ![i] = r.tenant,
                                      ![Reference] = IF mode = "sync" THEN ref.tenant ELSE @]
        /\ store' = r.status
        /\ last' = [ op |-> "submit", inst |-> i, t |-> t, load |-> load, res |-> r.res,
                     panic |-> r.panic, ref |-> mode = "sync" /\ ref.res.Accepted,
                     retried |-> hint.valid /\ hint.load = load /\ hint.due = t,
                     penalty |->
                         IF mode = "sync" \/ r.res.Accepted THEN "none"
                         ELSE appliedPenalty(
                                  cfg[i],
                                  rotateWindow(cfg[i], tenants[i],
                                               buildLoadRequest(cfg[i], t, load)),
                                  buildLoadRequest(cfg[i], t, load)),
                     members |-> <<>> ]
        /\ hint' = NextHint(r.res, t, load)
        /\ accLog' = IF mode = "sequential" /\ r.res.Accepted /\ ~r.panic
                     THEN Accepted(accLog, t, load)
                     ELSE accLog
        /\ UNCHANGED <<mode, cfg, now>>

\* compositeLoadLimiterDefaultImpl.Probe, by a thread that read the clock at t
CompositeProbe(t, load) ==
    \E r \in { compositeProbe([i \in 1..2 |-> cfg[i]], [i \in 1..2 |-> tenants[i]], t, load) } :
        /\ IsComposite(mode)
        /\ tenants' = [ i \in Instances |-> IF i \in 1..2 THEN r.tenants[i] ELSE tenants[i] ]
        /\ last' = [ op |-> "probe", inst |-> 0, t |-> t, load |-> load, res |-> r.res,
                     panic |-> r.panic, ref |-> FALSE, retried |-> FALSE,
                     penalty |-> "none", members |-> <<>> ]
        /\ UNCHANGED <<mode, cfg, now, store, hint, accLog>>

\* compositeLoadLimiterDefaultImpl.Submit: the clock is read under the lock
CompositeSubmit(load) ==
    \E r \in { compositeSubmit([i \in 1..2 |-> cfg[i]], [i \in 1..2 |-> tenants[i]], now, load) } :
        /\ IsComposite(mode)
        /\ tenants' = [ i \in Instances |-> IF i \in 1..2 THEN r.tenants[i] ELSE tenants[i] ]
        /\ last' = [ op |-> "submit", inst |-> 0, t |-> now, load |-> load, res |-> r.res,
                     panic |-> r.panic, ref |-> FALSE, retried |-> FALSE,
                     penalty |-> "none",
                     members |-> memberResults(
                                     compositeProbePhase([i \in 1..2 |-> cfg[i]],
                                                         [i \in 1..2 |-> tenants[i]],
                                                         now, load)) ]
        /\ UNCHANGED <<mode, cfg, now, store, hint, accLog>>

\* a submitUntil that enters its loop whatever the timeout
submitUntilEnterUnchecked(t, load, timeout) ==
    [NoCall EXCEPT !.pc = "attempt", !.load = load, !.timeout = timeout,
                   !.timeoutAt = t + timeout]

\* submitUntil up to its loop, entered when the clock reads t: a negative
\* timeout is rejected before any attempt
submitUntilEnter(t, load, timeout) ==
    IF timeout < 0
    THEN [NoCall EXCEPT !.pc = "done", !.load = load, !.timeout = timeout,
                        !.error = "invalid timeout"]
    ELSE [NoCall EXCEPT !.pc = "attempt", !.load = load, !.timeout = timeout,
                        !.timeoutAt = t + timeout]

\* one pass of the loop of submitUntil, from the count of the attempt to the
\* branches taken on the result of its Submit; err is Submit's error,
\* panicked its panic, which unwinds the call, and skip is
\* Config.SkipRetryInComputing, which the composite limiter does not read
submitUntilAttempt(s, skip, err, panicked, res) ==
    IF panicked THEN [s EXCEPT !.pc = "panicked", !.attempts = @ + 1]
    ELSE IF err
    THEN [s EXCEPT !.pc = "done", !.attempts = @ + 1, !.error = "error submitting load request"]
    ELSE IF res.Accepted
    THEN [s EXCEPT !.pc = "done", !.attempts = @ + 1]
    ELSE IF skip
    THEN [s EXCEPT !.pc = "done", !.attempts = @ + 1, !.error = "retry not supported"]
    ELSE IF ~res.RetryInAvailable \/ res.RetryIn <= 0
    THEN [s EXCEPT !.pc = "done", !.attempts = @ + 1, !.error = "excessive requested load"]
    ELSE [s EXCEPT !.pc = "check", !.attempts = @ + 1, !.retryIn = res.RetryIn]

\* a timeout check that compares the clock alone with timeoutAt
submitUntilWaitLate(s, t) ==
    IF t > s.timeoutAt
    THEN [s EXCEPT !.pc = "done", !.error = "timeout",
                   !.errAttempts = s.attempts, !.errWaited = s.waited]
    ELSE [s EXCEPT !.pc = "sleeping", !.wakeAt = t + s.retryIn]

\* the rest of the pass, when the clock reads t: the LoadRequestTimeout if the
\* wait would end after timeoutAt, else the call of sleep
submitUntilWait(s, t) ==
    IF t + s.retryIn > s.timeoutAt
    THEN [s EXCEPT !.pc = "done", !.error = "timeout",
                   !.errAttempts = s.attempts, !.errWaited = s.waited]
    ELSE [s EXCEPT !.pc = "sleeping", !.wakeAt = t + s.retryIn]

\* the return of sleep and the update of WaitedFor
submitUntilWake(s) ==
    [s EXCEPT !.pc = "attempt", !.waited = @ + s.retryIn, !.wakeAt = 0]

\* the timeouts of the calls of SubmitUntil
Timeouts == {-1} \cup 0..MaxTimeout

\* submitUntil comes to its call of Submit when the clock reads clock: Submit
\* reads the clock from then on, before it asks for the limiter's lock; the
\* composite Submit reads it once it holds the lock
submitRead(m, s, clock) ==
    IF s.pc = "attempt" /\ ~IsComposite(m) THEN [s EXCEPT !.t = clock] ELSE s

\* a thread calls SubmitUntil; a deadline is one the clock can reach
SubmitUntilStart ==
    \E load \in Loads, timeout \in Timeouts :
        /\ IsUntil(mode)
        /\ su.pc = "idle"
        /\ now + timeout <= Horizon(mode)
        /\ su' = submitRead(mode, submitUntilEnter(now, load, timeout), now)
        /\ UNCHANGED <<mode, cfg, tenants, now, store, last, hint, accLog, calls, tx,
                       mutex, threads>>

\* an attempt of loadLimiterDefaultImpl.submitUntil: its Submit, which read
\* the clock at some t since su.t, gets the limiter's lock
SubmitUntilAttempt ==
    /\ su.pc = "attempt"
    /\ \E t \in su.t..now : Submit(1, t, su.load)
    /\ su' = submitUntilAttempt([su EXCEPT !.t = 0], cfg[1].SkipRetryInComputing, FALSE,
                                last'.panic, last'.res)
    /\ UNCHANGED <<calls, tx, mutex, threads>>

\* an attempt of compositeLoadLimiterDefaultImpl.submitUntil
CompositeSubmitUntilAttempt ==
    /\ su.pc = "attempt"
    /\ CompositeSubmit(su.load)
    /\ su' = submitUntilAttempt(su, FALSE, FALSE, last'.panic, last'.res)
    /\ UNCHANGED <<calls, tx, mutex, threads>>

\* the timeout check after a rejection that can be retried
SubmitUntilWait ==
    /\ su.pc = "check"
    /\ su' = submitUntilWait(su, now)
    /\ UNCHANGED <<mode, cfg, tenants, now, store, last, hint, accLog, calls, tx,
                   mutex, threads>>

\* sleep returns once the clock has advanced by the requested duration
SubmitUntilWake ==
    /\ su.pc = "sleeping"
    /\ now >= su.wakeAt
    /\ su' = submitRead(mode, submitUntilWake(su), now)
    /\ UNCHANGED <<mode, cfg, tenants, now, store, last, hint, accLog, calls, tx,
                   mutex, threads>>

\* SubmitUntil has returned or was unwound by a panic
Returned(s) == s.pc \in {"done", "panicked"}

\* a public operation op of peer i of a standalone limiter with a sync
\* adapter, during which the adapter has the faults f
SyncCall(i, key, op, t, load, f) ==
    /\ IsPeerAdapter(mode)
    /\ calls < MaxAdapterCalls
    /\ \E r \in { syncTransaction(key, f, op, store, cfg[i], tenants[i],
                                   buildLoadRequest(cfg[i], t, load)) } :
        /\ tenants' = [tenants EXCEPT ![i] = r.tenants[1]]
        /\ store' = r.status
        /\ tx' = r.tx
        /\ last' = [ op |-> op, inst |-> i, t |-> t, load |-> load, res |-> r.res,
                     panic |-> r.panic, ref |-> FALSE, retried |-> FALSE,
                     penalty |-> "none", members |-> <<>> ]
        /\ calls' = calls + 1
        /\ UNCHANGED <<mode, cfg, now, hint, accLog, su, mutex, threads>>

SyncProbe ==
    \E i \in Peers(mode), key \in TenantKeys, load \in LoadsOf(mode) :
      \E f \in FaultsOf(key), t \in Timestamps(mode, now) :
        SyncCall(i, key, "probe", t, load, f)

SyncSubmit ==
    \E i \in Peers(mode), key \in TenantKeys, load \in LoadsOf(mode) :
      \E f \in FaultsOf(key), t \in Timestamps(mode, now) :
        SyncCall(i, key, "submit", t, load, f)

\* Stats reads no clock
SyncStats ==
    \E i \in Peers(mode), key \in TenantKeys :
      \E f \in FaultsOf(key) :
        SyncCall(i, key, "stats", now, 0, f)

\* a public operation op of a composite limiter with a sync adapter
CompositeSyncCall(key, op, t, load, f) ==
    /\ mode = "compositeAdapter"
    /\ calls < MaxAdapterCalls
    /\ \E r \in { compositeSyncTransaction(key, f, op, store, [i \in 1..2 |-> cfg[i]],
                                            [i \in 1..2 |-> tenants[i]], t, load) } :
        /\ tenants' = [ i \in Instances |-> IF i \in 1..2 THEN r.tenants[i] ELSE tenants[i] ]
        /\ store' = r.status
        /\ tx' = r.tx
        /\ last' = [ op |-> op, inst |-> 0, t |-> t, load |-> load, res |-> r.res,
                     panic |-> r.panic, ref |-> FALSE, retried |-> FALSE,
                     penalty |-> "none", members |-> <<>> ]
        /\ calls' = calls + 1
        /\ UNCHANGED <<mode, cfg, now, hint, accLog, su, mutex, threads>>

\* the composite Probe reads the clock before it takes the lock
CompositeSyncProbe ==
    \E key \in TenantKeys, load \in LoadsOf(mode) :
      \E f \in FaultsOf(key), t \in Timestamps(mode, now) :
        CompositeSyncCall(key, "probe", t, load, f)

\* the composite Submit reads the clock inside its transaction
CompositeSyncSubmit ==
    \E key \in TenantKeys, load \in LoadsOf(mode) :
      \E f \in FaultsOf(key) :
        CompositeSyncCall(key, "submit", now, load, f)

CompositeSyncStats ==
    /\ mode = "compositeAdapter"
    /\ \E key \in TenantKeys :
         \E f \in FaultsOf(key) : CompositeSyncCall(key, "stats", now, 0, f)

\* an Unlock that is not deferred: a panic of the task skips it
unlockUnlessPanicked(mx, panicked) ==
    IF panicked THEN mx ELSE [mx EXCEPT !.limiter = 0]

\* defer instance.Lock.Unlock(): the mutex is released when the operation
\* returns and when the panic of its task unwinds it
unlock(mx, panicked) == [mx EXCEPT !.limiter = 0]

\* a thread enters a public operation: Probe and Submit of a standalone
\* limiter and Probe of a composite one read the clock before Lock, Stats
\* and the composite Submit do not; SubmitUntil checks its timeout and calls
\* Submit
threadCall(m, op, load, timeout, clock) ==
    LET t == IF op = "stats" \/ (m = "compositeThreads" /\ op # "probe") THEN 0 ELSE clock
        s == IF op = "until" THEN submitUntilEnter(clock, load, timeout) ELSE NoCall
    IN  IF op = "until" /\ Returned(s) THEN IdleThread
        ELSE [pc |-> "waiting", op |-> op, load |-> load, t |-> t, s |-> s]

\* the task a thread runs while it holds the mutex
threadTask(m, th, cs, tns, clock) ==
    IF m = "compositeThreads"
    THEN compositeTaskOf(IF th.op = "until" THEN "submit" ELSE th.op, cs, tns,
                         IF th.op = "probe" THEN th.t ELSE clock, th.load)
    ELSE LET out == taskOf(IF th.op = "until" THEN "submit" ELSE th.op, cs[1], tns[1],
                           buildLoadRequest(cs[1], th.t, th.load))
         IN  [ tenants |-> [tns EXCEPT ![1] = out.tenant],
               panic |-> out.panic, res |-> out.res ]

\* the thread after the deferred Unlock: the public operation returns or is
\* unwound by the panic of its task; submitUntil goes on with the result of
\* its Submit
threadReturn(th, skip, out) ==
    IF th.op = "until"
    THEN LET s == submitUntilAttempt(th.s, skip, FALSE, out.panic, out.res)
         IN  IF s.pc = "check" THEN [th EXCEPT !.pc = "check", !.s = s] ELSE IdleThread
    ELSE IdleThread

\* the timeout check of submitUntil and the call of sleep
threadCheck(th, clock) ==
    LET s == submitUntilWait(th.s, clock)
    IN  IF s.pc = "sleeping" THEN [th EXCEPT !.pc = "sleeping", !.s = s] ELSE IdleThread

\* sleep returns and submitUntil calls Submit again
threadWake(m, th, clock) ==
    [th EXCEPT !.pc = "waiting", !.s = submitUntilWake(th.s),
               !.t = IF m = "compositeThreads" THEN 0 ELSE clock]

\* the timeouts a thread gives SubmitUntil: a negative one, which is refused
\* before any attempt, none, and the largest
ThreadTimeouts == {-1, 0, MaxTimeout}

ThreadOps == {"probe", "submit", "stats", "until"}

\* thread k calls a public operation
ThreadCall(k) ==
    /\ IsThreads(mode)
    /\ threads[k].pc = "idle"
    /\ calls < MaxThreadCalls
    /\ \E op \in ThreadOps, load \in LoadsOf(mode), timeout \in ThreadTimeouts :
          /\ op = "until" => now + timeout <= Horizon(mode)
          /\ op # "until" => timeout = 0
          /\ op = "stats" => load = 1
          /\ threads' = [threads EXCEPT ![k] = threadCall(mode, op, load, timeout, now)]
    /\ calls' = calls + 1
    /\ UNCHANGED <<mode, cfg, tenants, now, store, last, hint, accLog, su, tx, mutex>>

\* instance.Lock.Lock() returns in thread k
ThreadAcquire(k) ==
    /\ threads[k].pc = "waiting"
    /\ mutex.limiter = 0
    /\ mutex' = [mutex EXCEPT !.limiter = k]
    /\ threads' = [threads EXCEPT ![k].pc = "holding"]
    /\ UNCHANGED <<mode, cfg, tenants, now, store, last, hint, accLog, su, calls, tx>>

\* thread k runs its task and the deferred instance.Lock.Unlock()
ThreadRun(k) ==
    /\ threads[k].pc = "holding"
    /\ \E out \in { threadTask(mode, threads[k], [i \in 1..2 |-> cfg[i]],
                               [i \in 1..2 |-> tenants[i]], now) } :
          /\ tenants' = [ i \in Instances |->
                            IF i \in 1..2 THEN out.tenants[i] ELSE tenants[i] ]
          /\ threads' = [threads EXCEPT ![k] =
                            threadReturn(threads[k],
                                         mode # "compositeThreads" /\ cfg[1].SkipRetryInComputing,
                                         out)]
          /\ last' = [NoOp EXCEPT !.op = threads[k].op, !.panic = out.panic]
          /\ mutex' = unlock(mutex, out.panic)
    /\ UNCHANGED <<mode, cfg, now, store, hint, accLog, su, calls, tx>>

\* thread k at the timeout check of submitUntil
ThreadCheck(k) ==
    /\ threads[k].pc = "check"
    /\ threads' = [threads EXCEPT ![k] = threadCheck(threads[k], now)]
    /\ UNCHANGED <<mode, cfg, tenants, now, store, last, hint, accLog, su, calls, tx, mutex>>

\* the sleep of thread k returns
ThreadWake(k) ==
    /\ threads[k].pc = "sleeping"
    /\ now >= threads[k].s.wakeAt
    /\ threads' = [threads EXCEPT ![k] = threadWake(mode, threads[k], now)]
    /\ UNCHANGED <<mode, cfg, tenants, now, store, last, hint, accLog, su, calls, tx, mutex>>

Call ==
    /\ IsThreads(mode)
    /\ \E k \in Threads : ThreadCall(k)

Acquire ==
    /\ IsThreads(mode)
    /\ \E k \in Threads : ThreadAcquire(k)

Run ==
    /\ IsThreads(mode)
    /\ \E k \in Threads : ThreadRun(k)

Check ==
    /\ IsThreads(mode)
    /\ \E k \in Threads : ThreadCheck(k)

Wake ==
    /\ IsThreads(mode)
    /\ \E k \in Threads : ThreadWake(k)

\* the calls of the threads other than the one of SubmitUntil: versions are
\* explored up to MaxVersion; beside a SubmitUntil, MaxUntilCalls calls are
\* followed until it returns
Called(m, n) == IF IsUntil(m) THEN n + 1 ELSE n

DoProbe ==
    \E i \in Peers(mode), t \in Timestamps(mode, now), load \in LoadsOf(mode) :
        /\ ~IsAdapter(mode)
        /\ ~IsThreads(mode)
        /\ Probe(i, t, load)
        /\ \A j \in {i, Reference} : tenants'[j].Version <= MaxVersion
        /\ UNCHANGED <<su, calls, tx, mutex, threads>>

DoSubmit ==
    \E i \in Peers(mode), t \in Timestamps(mode, now), load \in LoadsOf(mode) :
        /\ ~IsAdapter(mode)
        /\ ~IsThreads(mode)
        /\ ~Returned(su)
        /\ calls < MaxUntilCalls
        /\ Submit(i, t, load)
        /\ \A j \in {i, Reference} : tenants'[j].Version <= MaxVersion
        /\ calls' = Called(mode, calls)
        /\ UNCHANGED <<su, tx, mutex, threads>>

DoCompositeProbe ==
    \E t \in Timestamps(mode, now), load \in Loads :
        /\ CompositeProbe(t, load)
        /\ \A i \in 1..2 : tenants'[i].Version <= MaxVersion
        /\ UNCHANGED <<su, calls, tx, mutex, threads>>

DoCompositeSubmit ==
    \E load \in Loads :
        /\ ~Returned(su)
        /\ calls < MaxUntilCalls
        /\ CompositeSubmit(load)
        /\ \A i \in 1..2 : tenants'[i].Version <= MaxVersion
        /\ calls' = Called(mode, calls)
        /\ UNCHANGED <<su, tx, mutex, threads>>

Next ==
    \/ Tick
    \/ DoProbe
    \/ DoSubmit
    \/ DoCompositeProbe
    \/ DoCompositeSubmit
    \/ SubmitUntilStart
    \/ SubmitUntilAttempt
    \/ CompositeSubmitUntilAttempt
    \/ SubmitUntilWait
    \/ SubmitUntilWake
    \/ SyncProbe
    \/ SyncSubmit
    \/ SyncStats
    \/ CompositeSyncProbe
    \/ CompositeSyncSubmit
    \/ CompositeSyncStats
    \/ Restore
    \/ Call
    \/ Acquire
    \/ Run
    \/ Check
    \/ Wake

Spec == Init /\ [][Next]_vars

\* one specification per kind of limiter
NextLimiter == Tick \/ DoProbe \/ DoSubmit

NextComposite == Tick \/ DoCompositeProbe \/ DoCompositeSubmit

SpecStandalone == InitMode("standalone") /\ [][NextLimiter]_vars

SpecSequential == InitMode("sequential") /\ [][NextLimiter]_vars

SpecEarly == InitMode("early") /\ [][NextLimiter]_vars

SpecEarlyStandalone == InitMode("earlyStandalone") /\ [][NextLimiter]_vars

SpecSync == InitMode("sync") /\ [][NextLimiter]_vars

SpecComposite == InitMode("composite") /\ [][NextComposite]_vars

\* a thread in SubmitUntil on a standalone or on a composite limiter, among
\* threads that call Submit
NextUntil ==
    \/ Tick
    \/ DoSubmit
    \/ DoCompositeSubmit
    \/ SubmitUntilStart
    \/ SubmitUntilAttempt
    \/ CompositeSubmitUntilAttempt
    \/ SubmitUntilWait
    \/ SubmitUntilWake

SpecUntil ==
    /\ InitMode("until") \/ InitMode("earlyUntil") \/ InitMode("compositeUntil")
    /\ [][NextUntil]_vars

\* concurrent threads on a standalone and on a composite limiter
NextThreads == Tick \/ Call \/ Acquire \/ Run \/ Check \/ Wake

SpecThreads ==
    /\ InitMode("threads") \/ InitMode("earlyThreads") \/ InitMode("compositeThreads")
    /\ [][NextThreads]_vars

\* a step of a thread inside a call
ThreadsStep == Acquire \/ Run \/ Check \/ Wake

\* ENABLED <<ThreadsStep>>_vars, from the guards of its actions
ThreadsCanStep ==
    \E k \in Threads :
        \/ threads[k].pc \in {"holding", "check"}
        \/ threads[k].pc = "sleeping" /\ now >= threads[k].s.wakeAt
        \/ threads[k].pc = "waiting" /\ mutex.limiter = 0

\* <<ThreadsStep>>_vars: the steps that change the record of a thread inside
\* a call
ThreadsStepped == \E k \in Threads : threads[k].pc # "idle" /\ threads'[k] # threads[k]

\* WF_vars(ThreadsStep): while some thread can run, some thread does.  It
\* follows from the scheduling of each thread: a thread that holds the mutex,
\* is at the timeout check or whose sleep is over stays so until it runs,
\* and sync.Mutex hands the mutex over to a thread blocked in Lock
ThreadsScheduled ==
    \/ []<>(~ThreadsCanStep)
    \/ []<><<ThreadsStepped>>_vars

SpecThreadsFair == SpecThreads /\ WF_vars(Tick) /\ ThreadsScheduled

\* the restore of a serialized tenant
SpecRestore == InitRestore /\ [][Restore]_vars

\* peers and a composite limiter on a sync adapter whose calls can fail
NextAdapter ==
    \/ Tick
    \/ SyncProbe
    \/ SyncSubmit
    \/ SyncStats
    \/ CompositeSyncProbe
    \/ CompositeSyncSubmit
    \/ CompositeSyncStats

SpecAdapter ==
    /\ InitMode("adapter") \/ InitMode("earlyAdapter") \/ InitMode("compositeAdapter")
    /\ [][NextAdapter]_vars

\* the clock advances, and the thread of SubmitUntil is scheduled: it gets
\* the limiter's mutex when it asks for it, and its sleep returns once the
\* clock has advanced by the slept duration; the other threads submit
\* whenever they like
SubmitUntilStep ==
    \/ SubmitUntilAttempt
    \/ CompositeSubmitUntilAttempt
    \/ SubmitUntilWait
    \/ SubmitUntilWake

\* ENABLED <<SubmitUntilStep>>_vars, from the guards of its actions
SubmitUntilCanStep ==
    \/ su.pc \in {"attempt", "check"}
    \/ su.pc = "sleeping" /\ now >= su.wakeAt

\* <<SubmitUntilStep>>_vars: no other action changes the record of a call
\* that has started
SubmitUntilStepped == su.pc # "idle" /\ su' # su

\* WF_vars(SubmitUntilStep)
SubmitUntilScheduled ==
    \/ []<>(~SubmitUntilCanStep)
    \/ []<><<SubmitUntilStepped>>_vars

SpecUntilFair == SpecUntil /\ WF_vars(Tick) /\ SubmitUntilScheduled

(***************************************************************************)
(* Properties.  A step that leaves the clock alone is a call; last' then   *)
(* describes the call and the unprimed tenants are its starting state.     *)
(***************************************************************************)
RECURSIVE SumValues(_)
\* sum of the segment values of a queue, as an unbounded integer
SumValues(q) == IF q = <<>> THEN 0 ELSE q[1].Value + SumValues(Tail(q))

RECURSIVE SumLoads(_)
SumLoads(log) == IF log = <<>> THEN 0 ELSE log[1].load + SumLoads(Tail(log))

\* the tenant of the called instance once its window is rotated to the
\* request of the call described by op
Rotated(tns, op) ==
    rotateWindow(cfg[op.inst], tns[op.inst], buildLoadRequest(cfg[op.inst], op.t, op.load))

\* C1: on a limiter without sync adapter that is called with non-decreasing
\* timestamps, the load accepted by Submit during the last WindowSize
\* milliseconds (and so during any interval of that length) never exceeds
\* MaxLoad.
C1_AcceptedLoadWithinWindow == SumLoads(accLog) <= cfg[1].MaxLoad

\* C2: Probe returns true, and Submit accepts, exactly when the window total
\* after the rotation to the request's timestamp plus the requested load is
\* at most MaxLoad.
C2_DecisionIsTotalPlusLoad ==
    [][ now' = now =>
          (last'.res.Accepted <=>
              Rotated(tenants, last').WindowTotal + last'.load <= cfg[last'.inst].MaxLoad)
      ]_vars

\* C7: an accepted Submit leaves the window total at the rotated total plus
\* the load, adds the whole load to the front segment (which starts at the
\* request's segment start), changes no other segment, clears WasOver and
\* keeps the total within MaxLoad.
C7_AcceptEffect ==
    [][ now' = now /\ last'.op = "submit" /\ last'.res.Accepted =>
          LET i == last'.inst
              before == Rotated(tenants, last')
              after == tenants'[i]
          IN  /\ after.WindowTotal = before.WindowTotal + last'.load
              /\ Len(after.WindowQueue) = Len(before.WindowQueue)
              /\ Len(after.WindowQueue) > 0
              /\ Front(after.WindowQueue).StartTime =
                     locateSegmentStartTime(cfg[i], last'.t)
              /\ Front(after.WindowQueue).Value =
                     Front(before.WindowQueue).Value + last'.load
              /\ PopFront(after.WindowQueue) = PopFront(before.WindowQueue)
              /\ ~after.WasOver
              /\ after.WindowTotal <= cfg[i].MaxLoad
      ]_vars

\* C8: after every call each tenant's window total is the sum of the values
\* of the segments of its queue.
C8_TotalIsSumOfSegments ==
    \A i \in Instances : tenants[i].WindowTotal = SumValues(tenants[i].WindowQueue)

\* C9: the segments of every queue have strictly decreasing start times from
\* front to back, each a multiple of the segment size, whatever the order of
\* the request timestamps.
C9_SegmentsOrderedAndAligned ==
    \A i \in Instances :
        LET q == tenants[i].WindowQueue
        IN  /\ \A k \in 1..(Len(q) - 1) : q[k].StartTime > q[k + 1].StartTime
            /\ \A k \in 1..Len(q) : q[k].StartTime % cfg[i].WindowSegmentSize = 0

\* C10: after every Probe or Submit no segment starts at or before the front
\* segment's start minus WindowSize.
C10_NoSegmentOlderThanWindow ==
    \A i \in Instances :
        LET q == tenants[i].WindowQueue
        IN  \A k \in 1..Len(q) : q[k].StartTime > Front(q).StartTime - cfg[i].WindowSize

\* C3: every Submit on one of two peers sharing a sync adapter gets the
\* decision that a single limiter without adapter, given the same calls in
\* the order of the lock, gives to it.
C3_PeersDecideLikeOneLimiter ==
    last.op = "submit" => last.res.Accepted = last.ref

\* the members of the composite as probed for the call described by op
MemberProbes(tns, op) ==
    [ i \in 1..Len(Members) |->
        probe(cfg[i], tns[i], buildLoadRequest(cfg[i], op.t, op.load)) ]

\* C4: a composite Submit is accepted iff the probe of every member accepts
\* at the captured timestamp; accepted, it raises every member's rotated
\* window total by exactly the load; rejected, it leaves every member that
\* did not reject with its rotated window (no load recorded) and its WasOver.
C4_CompositeAllOrNothing ==
    [][ now' = now /\ last'.op = "submit" =>
          LET p == MemberProbes(tenants, last')
          IN  /\ last'.res.Accepted <=> \A i \in DOMAIN p : p[i].result
              /\ last'.res.Accepted =>
                    \A i \in DOMAIN p :
                        tenants'[i].WindowTotal = p[i].tenant.WindowTotal + last'.load
              /\ ~last'.res.Accepted =>
                    \A i \in DOMAIN p :
                        p[i].result =>
                            /\ tenants'[i].WindowQueue = p[i].tenant.WindowQueue
                            /\ tenants'[i].WindowTotal = p[i].tenant.WindowTotal
                            /\ tenants'[i].WasOver = tenants[i].WasOver
      ]_vars

\* C5: a Submit rejected at t with RetryIn = D and repeated with the same
\* load at t + D, with no other Submit in between, is accepted.
C5_RetryIsAccepted ==
    last.op = "submit" /\ last.retried => last.res.Accepted

\* C6: after a Submit rejected at t with RetryIn = D and no other Submit, a
\* Probe of the same load before t + D returns false; and D is the start of
\* a segment of the window (the newest one that has to age out), plus
\* WindowSize, minus t.
C6_RetryHintIsMinimal ==
    /\ last.op = "probe" /\ hint.valid /\ last.load = hint.load /\ last.t < hint.due
          => ~last.res.Accepted
    /\ last.op = "submit" /\ ~last.res.Accepted /\ last.res.RetryInAvailable
          => LET c == cfg[last.inst]
                 tn == tenants[last.inst]
                 D == last.res.RetryIn
             IN  /\ \E k \in 1..Len(tn.WindowQueue) :
                       D = tn.WindowQueue[k].StartTime + c.WindowSize - last.t
                 /\ \A d \in 0..(D - 1) :
                       ~probe(c, tn, buildLoadRequest(c, last.t + d, last.load)).result

\* C11: on a limiter without sync adapter, after every Submit, accepted or
\* rejected, the window total is at most AbsoluteMaxPenaltyCap.
C11_TotalWithinPenaltyCap ==
    last.op = "submit" /\ ~last.panic /\ last.inst = 1 =>
        tenants[1].WindowTotal <= cfg[1].AbsoluteMaxPenaltyCap

\* C12: a Probe leaves the version of the tenant it is called on unchanged.
C12_ProbeKeepsVersion ==
    [][ now' = now /\ last'.op = "probe" /\ last'.inst \in Instances =>
          tenants'[last'.inst].Version = tenants[last'.inst].Version
      ]_vars

\* limiter i once its window is rotated to the request of the call described
\* by op
MemberRotated(tns, op, i) ==
    rotateWindow(cfg[i], tns[i], buildLoadRequest(cfg[i], op.t, op.load))

\* the limiters a Probe described by op is about: the limiter it is called
\* on, or every member of the composite it is called on
ProbedLimiters(op) ==
    IF IsComposite(mode) THEN 1..Len(Members) ELSE {op.inst}

\* the first member whose rotated window has no room for the load of the
\* call described by op; Len(Members) + 1 when every member has room
FirstRejecting(tns, op) ==
    LET rejecting ==
            { i \in 1..Len(Members) :
                ~probeRotated(cfg[i], MemberRotated(tns, op, i),
                              buildLoadRequest(cfg[i], op.t, op.load)).result }
    IN  IF rejecting = {} THEN Len(Members) + 1
        ELSE CHOOSE i \in rejecting : \A j \in rejecting : i <= j

\* the limiters whose window a Probe described by op rotates: the limiter it
\* is called on, or the members of the composite up to the first one that
\* rejects
ProbeEvaluated(tns, op) ==
    IF IsComposite(mode)
    THEN { i \in 1..Len(Members) : i <= FirstRejecting(tns, op) }
    ELSE {op.inst}

\* C13 as stated: after a Probe, standalone or composite, every limiter it is
\* about keeps its WasOver and has the window total of its window rotated to
\* the probe's timestamp, which is not above the total before the call.
C13_ProbeLeavesRotatedTotal ==
    [][ now' = now /\ last'.op = "probe" =>
          \A i \in ProbedLimiters(last') :
              /\ tenants'[i].WasOver = tenants[i].WasOver
              /\ tenants'[i].WindowTotal = MemberRotated(tenants, last', i).WindowTotal
              /\ tenants'[i].WindowTotal <= tenants[i].WindowTotal
      ]_vars

\* C13, the part that holds whatever the loads: a Probe, standalone or
\* composite, leaves every limiter whose window it rotates with exactly the
\* rotated window (no load, no penalty, WasOver kept), and every other
\* member of a composite untouched.
C13_ProbeRecordsNothing ==
    [][ now' = now /\ last'.op = "probe" =>
          \A i \in ProbedLimiters(last') :
              /\ tenants'[i].WasOver = tenants[i].WasOver
              /\ IF i \in ProbeEvaluated(tenants, last')
                 THEN tenants'[i] = MemberRotated(tenants, last', i)
                 ELSE tenants'[i] = tenants[i]
      ]_vars

\* the start time and value of each segment of a queue, front to back
Segments(q) == [ k \in 1..Len(q) |-> <<q[k].StartTime, q[k].Value>> ]

\* C14: a Probe or Submit that leaves the tenant's segments, window total or
\* WasOver different from what they were ends with a strictly greater
\* version, whatever the order of the request timestamps.
C14_MutationBumpsVersion ==
    [][ now' = now /\ last'.inst \in Instances =>
          LET before == tenants[last'.inst]
              after == tenants'[last'.inst]
          IN  \/ Segments(after.WindowQueue) # Segments(before.WindowQueue)
              \/ after.WindowTotal # before.WindowTotal
              \/ after.WasOver # before.WasOver
              => after.Version > before.Version
      ]_vars

\* C15: on a limiter without sync adapter, WasOver after a Submit is the
\* negation of its Accepted flag and a Probe keeps WasOver; the overstep
\* penalty is applied only by a rejection that finds WasOver false and the
\* request overhead penalty only by one that finds it true (so an accepted
\* Submit separates any two applications of the overstep penalty).
C15_PenaltyFollowsWasOver ==
    [][ now' = now /\ last'.inst = 1 /\ ~last'.panic =>
          /\ last'.op = "submit" => tenants'[1].WasOver = ~last'.res.Accepted
          /\ last'.op = "probe" => tenants'[1].WasOver = tenants[1].WasOver
          /\ last'.penalty = "overstep" => ~last'.res.Accepted /\ ~tenants[1].WasOver
          /\ last'.penalty = "overhead" => ~last'.res.Accepted /\ tenants[1].WasOver
      ]_vars

\* a rejection has applied the request overhead penalty on a tenant that an
\* earlier rejection had left over its limit
C15_Witness ==
    /\ mode = "standalone"
    /\ last.op = "submit" /\ ~last.res.Accepted
    /\ last.penalty = "overhead"
    /\ tenants[1].WasOver
    /\ tenants[1].WindowTotal > cfg[1].MaxLoad

\* C16: an accepted Submit returns RetryInAvailable = false and RetryIn = 0;
\* a rejected one returns RetryInAvailable = false when the load is above
\* MaxLoad or SkipRetryInComputing is set, and otherwise RetryInAvailable =
\* true with a strictly positive RetryIn.
C16_RetryInOfSubmit ==
    last.op = "submit" /\ last.inst = 1 /\ ~last.panic =>
        /\ last.res.Accepted => ~last.res.RetryInAvailable /\ last.res.RetryIn = 0
        /\ ~last.res.Accepted =>
              IF last.load > cfg[1].MaxLoad \/ cfg[1].SkipRetryInComputing
              THEN ~last.res.RetryInAvailable
              ELSE last.res.RetryInAvailable /\ last.res.RetryIn > 0

\* C19: SubmitUntil with a negative timeout, on a standalone or a composite
\* limiter, returns Rejected 'invalid timeout' with zero attempts and zero
\* wait, and its call is no Submit: tenants, versions and the record of the
\* last call are left as they were
C19_NegativeTimeoutRejected ==
    [][ su'.timeout < 0 /\ su'.pc # "idle" =>
            /\ su'.pc = "done"
            /\ su'.error = "invalid timeout"
            /\ su'.attempts = 0
            /\ su'.waited = 0
            /\ su.pc = "idle" => tenants' = tenants /\ store' = store /\ last' = last ]_vars

C19_Witness ==
    /\ mode = "compositeUntil"
    /\ su.pc = "done"
    /\ su.timeout < 0
    /\ su.error = "invalid timeout"
    /\ \A i \in 1..2 : tenants[i].WindowTotal > 0

C19_WitnessStandalone ==
    /\ mode = "until"
    /\ su.pc = "done"
    /\ su.timeout < 0
    /\ su.error = "invalid timeout"
    /\ tenants[1].WindowTotal > 0

\* the reasons of a LoadRequestRejected returned from the loop of submitUntil
RejectedReasons == {"excessive requested load", "retry not supported"}

\* C20: on a standalone limiter, SubmitUntil with a load above MaxLoad and a
\* non-negative timeout returns a Rejected error after exactly one attempt
\* and with zero wait, whatever the tenant holds
C20_ExcessiveLoadRejectedAtOnce ==
    mode = "until" /\ su.pc # "idle" /\ su.timeout >= 0 /\ su.load > cfg[1].MaxLoad =>
        \/ su.pc = "attempt" /\ su.attempts = 0
        \/ /\ su.pc = "done"
           /\ su.error \in RejectedReasons
           /\ su.attempts = 1
           /\ su.waited = 0

\* C17: the deadline of SubmitUntil is the clock at the start of the call
\* plus the timeout; after a rejection with a retry_in it sleeps, for
\* retry_in, only when the clock plus retry_in is within the deadline, and
\* otherwise returns, without sleeping, a Timeout that carries the attempts
\* made and the wait accumulated; the wait grows only by a completed sleep
\* and never exceeds the timeout
C17_SleepsWithinDeadline ==
    [][ /\ su.pc = "idle" /\ su'.pc # "idle" /\ su'.timeout >= 0 =>
               su'.timeoutAt = now + su'.timeout
        /\ su.pc = "check" /\ su' # su =>
               IF now + su.retryIn <= su.timeoutAt
               THEN su' = [su EXCEPT !.pc = "sleeping", !.wakeAt = now + su.retryIn]
               ELSE su' = [su EXCEPT !.pc = "done", !.error = "timeout",
                                     !.errAttempts = su.attempts, !.errWaited = su.waited]
        /\ su'.pc = "sleeping" => su.pc \in {"check", "sleeping"}
        /\ su'.waited # su.waited =>
               /\ su.pc = "sleeping"
               /\ now >= su.wakeAt
               /\ su'.waited = su.waited + su.retryIn
        /\ su'.timeout >= 0 => su'.waited <= su'.timeout /\ su'.errWaited <= su'.timeout
      ]_vars

C17_Witness ==
    /\ mode = "until"
    /\ su.pc = "done"
    /\ su.error = "timeout"
    /\ su.errAttempts = 2
    /\ su.errWaited > 0
    /\ su.errWaited < su.timeout

C17_WitnessComposite ==
    /\ mode = "compositeUntil"
    /\ su.pc = "done"
    /\ su.error = "timeout"
    /\ su.errAttempts = 2
    /\ su.errWaited > 0

\* the Error of a SubmitUntilResult: nil, a LoadRequestRejected, a
\* LoadRequestTimeout or the wrapped error of Submit
ResultKinds ==
    {"nil", "invalid timeout", "timeout", "error submitting load request"} \cup RejectedReasons

\* C18: with a non-negative timeout and a sleep that returns once the clock
\* has advanced by the slept duration, every call of SubmitUntil returns,
\* also while other threads submit load to the same tenant, and it returns
\* with a nil error, a Rejected, a Timeout or a wrapped submission error
C18_SubmitUntilTerminates ==
    (su.pc # "idle" /\ su.timeout >= 0) ~> (su.pc = "done" /\ su.error \in ResultKinds)

\* the fairness of SpecUntilFair is weak fairness of SubmitUntilStep: the
\* steps of a started call are the steps that change its record
SubmitUntilStepChangesCall ==
    [][ SubmitUntilStepped <=> SubmitUntilStep ]_vars

\* C21: on a composite limiter, SubmitUntil with a load above the MaxLoad of
\* at least one member and a non-negative timeout returns Rejected
\* 'excessive requested load' after exactly one attempt and with zero wait,
\* whatever the other members hold
C21_CompositeExcessiveLoadRejectedAtOnce ==
    /\ mode = "compositeUntil"
    /\ su.pc # "idle"
    /\ su.timeout >= 0
    /\ \E i \in 1..2 : su.load > cfg[i].MaxLoad
    =>  \/ su.pc = "attempt" /\ su.attempts = 0
        \/ /\ su.pc = "done"
           /\ su.error = "excessive requested load"
           /\ su.attempts = 1
           /\ su.waited = 0

\* the largest element of a non-empty set of integers
Max(S) == CHOOSE m \in S : \A n \in S : n <= m

\* the RetryIn fields returned by the members that rejected the last call
RejectionHints(op) ==
    { op.members[i].res.RetryIn : i \in { j \in DOMAIN op.members : op.members[j].rejected } }

\* C22: for a rejected composite Submit, retry_in is the largest of the
\* retry hints returned by the rejecting members, and retry_in_available
\* holds exactly when a rejecting member returned a positive hint
C22_CompositeRetryInIsMaximum ==
    last.op = "submit" /\ last.inst = 0 /\ ~last.panic /\ ~last.res.Accepted =>
        /\ RejectionHints(last) # {}
        /\ last.res.RetryIn = Max(RejectionHints(last))
        /\ last.res.RetryInAvailable <=>
               \E i \in DOMAIN last.members :
                   /\ last.members[i].rejected
                   /\ last.members[i].res.RetryInAvailable
                   /\ last.members[i].res.RetryIn > 0

C22_Witness ==
    /\ last.op = "submit" /\ last.inst = 0 /\ ~last.panic /\ ~last.res.Accepted
    /\ \A i \in 1..2 : last.members[i].rejected /\ last.members[i].res.RetryInAvailable
    /\ last.members[1].res.RetryIn > last.members[2].res.RetryIn
    /\ last.members[2].res.RetryIn > 0
    /\ last.res.RetryIn = last.members[1].res.RetryIn

\* how many times e occurs in a trace, and where it occurs first
Count(trace, e) == Len(SelectSeq(trace, LAMBDA x : x = e))

Position(trace, e) == CHOOSE k \in 1..Len(trace) : trace[k] = e

\* Lock comes first and once; after a Lock that succeeded come one Fetch,
\* the task, at most one Write and one Unlock, in this order, Unlock last
WellBracketed(x) ==
    /\ Len(x.trace) >= 1
    /\ x.trace[1] = "Lock"
    /\ Count(x.trace, "Lock") = 1
    /\ IF "lock" \in x.faults THEN Len(x.trace) = 1
       ELSE /\ Count(x.trace, "Fetch") = 1
            /\ Count(x.trace, "Task") = 1
            /\ Count(x.trace, "Write") <= 1
            /\ Count(x.trace, "Unlock") = 1
            /\ x.trace[Len(x.trace)] = "Unlock"
            /\ Position(x.trace, "Fetch") < Position(x.trace, "Task")
            /\ Count(x.trace, "Write") = 1 =>
                   /\ Position(x.trace, "Task") < Position(x.trace, "Write")
                   /\ Position(x.trace, "Write") < Position(x.trace, "Unlock")

\* C23 as stated: every public operation of a limiter with a sync adapter
\* calls Lock first, and after a Lock that succeeded one Fetch, the task, at
\* most one Write and one Unlock as the last call
C23_EveryOperationBracketed == tx # NoTransaction => WellBracketed(tx)

\* C23: every public operation on a tenant key that is not empty calls Lock
\* first, and after a Lock that succeeded one Fetch, the task, at most one
\* Write and one Unlock as the last call; on the empty tenant key the
\* operation returns an error and calls nothing
C23_KeyedOperationBracketed ==
    tx # NoTransaction =>
        IF tx.key = "" THEN tx.trace = <<>> /\ tx.err
        ELSE WellBracketed(tx)

C23_Witness ==
    /\ tx.key # ""
    /\ tx.trace = <<"Lock", "Fetch", "Task", "Write", "Unlock">>
    /\ last.op = "submit"

C23_WitnessComposite == C23_Witness /\ mode = "compositeAdapter"

C23_WitnessEmptyKey == tx # NoTransaction /\ tx.key = "" /\ last.op = "probe"

\* the calls of the adapter in a trace
AdapterCalls(trace) == SelectSeq(trace, LAMBDA e : e # "Task")

\* the last call ran a transaction: on a tenant key, with the lock acquired
Transacted == tx # NoTransaction /\ tx.key # "" /\ "lock" \notin tx.faults

\* C24: a read-only transaction (Probe or Stats, standalone or composite)
\* never calls Write, even when the task changed the version: its adapter
\* calls are exactly Lock, Fetch, Unlock
C24_ReadOnlyNeverWrites ==
    Transacted /\ last.op \in {"probe", "stats"} =>
        /\ AdapterCalls(tx.trace) = <<"Lock", "Fetch", "Unlock">>
        /\ tx.payload = NoStatus

C24_Witness ==
    /\ Transacted
    /\ last.op = "probe"
    /\ tx.changed
    /\ AdapterCalls(tx.trace) = <<"Lock", "Fetch", "Unlock">>

C24_WitnessComposite == C24_Witness /\ mode = "compositeAdapter"

\* the versions recorded by a transaction with the faults f after its fetch
\* and restore, on a standalone limiter and on the members of a composite
VersionBefore(f, i) ==
    syncRestore(f, fetchedStatus(f, store, tenants[i]), tenants[i]).Version

VersionsBefore(f) ==
    LET tns == [ i \in 1..2 |-> tenants[i] ]
        restored == compositeSyncRestore(f, compositeFetchedStatus(f, store, tns), tns)
    IN  [ i \in 1..2 |-> restored[i].Version ]

\* a step that is a Submit which ran its transaction
SubmitTransacted ==
    /\ calls' = calls + 1
    /\ IsAdapter(mode)
    /\ last'.op = "submit"
    /\ tx'.key # ""
    /\ "lock" \notin tx'.faults

\* C25: a Submit calls Write exactly once if and only if the version after
\* the task is greater than the version recorded after fetch and restore
\* (composite: if and only if the version of a member changed), never more
\* than once, and the payload is the serialization of the state after the
\* task (composite: the serializations of the members in order)
C25_WriteIffVersionChanged ==
    [][ SubmitTransacted =>
          /\ Count(tx'.trace, "Write") <= 1
          /\ Count(tx'.trace, "Write") = 1 <=>
                 IF IsPeerAdapter(mode)
                 THEN tenants'[last'.inst].Version > VersionBefore(tx'.faults, last'.inst)
                 ELSE \E i \in 1..2 : tenants'[i].Version # VersionsBefore(tx'.faults)[i]
          /\ Count(tx'.trace, "Write") = 1 =>
                 /\ tx'.payload = IF IsPeerAdapter(mode)
                                  THEN serializeStatus(tenants'[last'.inst])
                                  ELSE [ i \in 1..2 |-> serializeStatus(tenants'[i]) ]
                 /\ "write" \notin tx'.faults => store' = tx'.payload
          /\ Count(tx'.trace, "Write") = 0 => store' = store ]_vars

\* a step that is a public operation during which Lock failed
LockFailed ==
    /\ calls' = calls + 1
    /\ IsAdapter(mode)
    /\ tx'.key # ""
    /\ "lock" \in tx'.faults

\* C26: when Lock fails the operation returns an error, the task is not
\* executed, Fetch, Write and Unlock are not called, and the queue, total,
\* was_over and version of the tenant are unchanged
C26_LockFailureAborts ==
    [][ LockFailed =>
          /\ tx'.err
          /\ tx'.trace = <<"Lock">>
          /\ tenants' = tenants
          /\ store' = store ]_vars

\* a Submit that would have been accepted and written had Lock succeeded
C26_Witness ==
    /\ IsAdapter(mode)
    /\ tx.key # ""
    /\ "lock" \in tx.faults
    /\ tx.err
    /\ last.op = "submit"
    /\ tx.trace = <<"Lock">>
    /\ \E i \in 1..2 : tenants[i].WindowTotal < cfg[i].MaxLoad /\ tenants[i].WindowQueue # <<>>

\* a step that is a Submit during which Fetch, the decoding of the payload,
\* Write or Unlock failed
SubmitFaulted ==
    /\ SubmitTransacted
    /\ tx'.faults # {}

\* what a limiter without adapter returns and leaves, from the local state
\* held before the step, for the Submit of the step
UnsynchronizedSubmit ==
    IF IsPeerAdapter(mode)
    THEN LET out == submitTask(cfg[last'.inst], tenants[last'.inst],
                               buildLoadRequest(cfg[last'.inst], last'.t, last'.load))
         IN  [ tenants |-> [tenants EXCEPT ![last'.inst] = out.tenant],
               panic |-> out.panic, res |-> out.res ]
    ELSE LET out == compositeSubmit([i \in 1..2 |-> cfg[i]], [i \in 1..2 |-> tenants[i]],
                                    last'.t, last'.load)
         IN  [ tenants |-> [ i \in Instances |->
                               IF i \in 1..2 THEN out.tenants[i] ELSE tenants[i] ],
               panic |-> out.panic, res |-> out.res ]

\* C27: when Fetch fails, the payload cannot be decoded, Write fails or
\* Unlock fails, Submit returns no error, its decision and the local tenant
\* state it leaves are those of a limiter without adapter started from the
\* local state held before the call, and the task, the Write of a changed
\* state and Unlock are still performed
C27_AdapterFaultsAreNotFatal ==
    [][ SubmitFaulted =>
          /\ ~tx'.err
          /\ last'.res = UnsynchronizedSubmit.res
          /\ last'.panic = UnsynchronizedSubmit.panic
          /\ tenants' = UnsynchronizedSubmit.tenants
          /\ WellBracketed(tx')
          /\ ~last'.panic => (Count(tx'.trace, "Write") = 1 <=> tx'.changed) ]_vars

\* the segments of a queue as the pairs of start time and value, newest first
SegmentsOf(tn) ==
    [ i \in 1..Len(tn.WindowQueue) |->
        <<tn.WindowQueue[i].StartTime, tn.WindowQueue[i].Value>> ]

\* C28: restoring the serialization of a tenant state changes nothing when
\* its version equals the local one, returns an error and changes nothing
\* when it is lower, and when it is higher makes the local queue (same
\* segments, newest first), window_total, was_over and version those of the
\* serialized state
C28_RestoreOfSerialized ==
    [][ last'.op = "restore" =>
          /\ tenants[2].Version = tenants[1].Version =>
                 ~tx'.err /\ tenants'[1] = tenants[1]
          /\ tenants[2].Version < tenants[1].Version =>
                 tx'.err /\ tenants'[1] = tenants[1]
          /\ tenants[2].Version > tenants[1].Version =>
                 /\ ~tx'.err
                 /\ SegmentsOf(tenants'[1]) = SegmentsOf(tenants[2])
                 /\ tenants'[1].WindowTotal = tenants[2].WindowTotal
                 /\ tenants'[1].WasOver = tenants[2].WasOver
                 /\ tenants'[1].Version = tenants[2].Version ]_vars

\* C29: with an adapter that never fails and peers that use only the public
\* operations, a sync transaction never fetches a payload whose version is
\* lower than the local version of the tenant
C29_NeverFetchesStale ==
    [][ mode = "sync" /\ now' = now /\ store # NoStatus =>
          store[2] >= tenants[last'.inst].Version ]_vars

\* C30: concurrent Probe, Submit, SubmitUntil and Stats calls on a standalone
\* or composite limiter are deadlock-free: no mutex of a member is ever
\* taken, a thread holds the limiter's mutex only while it runs its task (not
\* while it sleeps in SubmitUntil), every thread blocked in Lock acquires the
\* mutex, every thread that holds it releases it, and every call returns
C30_DeadlockFree ==
    /\ [](\A i \in 1..2 : mutex.members[i] = 0)
    /\ [](\A k \in Threads : mutex.limiter = k <=> threads[k].pc = "holding")
    /\ \A k \in Threads : (threads[k].pc = "waiting") ~> (threads[k].pc = "holding")
    /\ \A k \in Threads : (threads[k].pc = "holding") ~> (mutex.limiter # k)
    /\ \A k \in Threads : (threads[k].pc # "idle") ~> (threads[k].pc = "idle")

\* a thread blocked in Lock while another thread holds the mutex
C30_Witness ==
    \E k \in Threads, j \in Threads :
        /\ threads[k].pc = "holding"
        /\ mutex.limiter = k
        /\ threads[j].pc = "waiting"

\* a thread sleeping in SubmitUntil while another thread holds the mutex
C30_WitnessSleeping ==
    \E k \in Threads, j \in Threads :
        /\ threads[k].pc = "holding"
        /\ threads[j].pc = "sleeping"

\* a thread whose task panicked while another thread was blocked in Lock
C30_WitnessPanic ==
    \E j \in Threads : last.panic /\ threads[j].pc \in {"waiting", "holding"}

C30_WitnessComposite == C30_Witness /\ mode = "compositeThreads"

\* the fairness of SpecThreadsFair is weak fairness of ThreadsStep: the steps
\* of a thread inside a call are the steps that change its record
ThreadsStepChangesThread ==
    [][ IsThreads(mode) => (ThreadsStepped <=> ThreadsStep) ]_vars

\* C31: on one standalone limiter without sync adapter and with a
\* non-decreasing clock, the requests of concurrent threads are applied in
\* non-decreasing order of the timestamps they captured, and rotateWindow
\* never finds a front segment newer than the request's segment
C31_AppliedInTimestampOrder ==
    [][ mode = "standalone" /\ now' = now =>
          /\ last.op # "none" => last'.t >= last.t
          /\ futureSegments(tenants[1].WindowQueue,
                            locateSegmentStartTime(cfg[1], last'.t)) = 0 ]_vars

\* C32: with a correct adapter and peers of identical configuration, a sync
\* transaction that fetches a payload whose version equals the version of
\* the local tenant (and skips the restore) fetches the queue, window total
\* and WasOver of the local tenant
C32_EqualVersionEqualState ==
    [][ /\ mode = "sync"
        /\ now' = now
        /\ store # NoStatus
        /\ store[2] = tenants[last'.inst].Version
        => store = serializeStatus(tenants[last'.inst]) ]_vars

\* the step is a Stats call (whose task reads the tenant only) on a peer
\* whose restore of the fetched payload returns an error
StatsRestoreFailed ==
    /\ IsPeerAdapter(mode)
    /\ calls' = calls + 1
    /\ last'.op = "stats"
    /\ tx'.key # ""
    /\ tx'.faults \cap {"lock", "fetch"} = {}
    /\ fetchedStatus(tx'.faults, store, tenants[last'.inst]) # NoStatus
    /\ restoreSerializedStatus(fetchedStatus(tx'.faults, store, tenants[last'.inst]),
                               tenants[last'.inst]).err

\* C33: when the restore of a fetched payload returns an error (wrong
\* format, unparsable field, malformed segment, stale version), the
\* tenant's queue, window total, WasOver and version are left as they were
C33_FailedRestoreLeavesTenant ==
    [][ StatsRestoreFailed => tenants' = tenants ]_vars

\* C34: after rotateWindow, for every request timestamp (timestamps smaller
\* than WindowSize included) and every tenant state, the queue is not empty
\* and its front segment starts at the request's segment start time
C34_RotatedFrontIsRequestSegment ==
    [][ mode = "early" /\ now' = now =>
          \A req \in { buildLoadRequest(cfg[1], last'.t, last'.load) } :
             \A r \in { rotateWindow(cfg[1], tenants[1], req) } :
                /\ r.WindowQueue # <<>>
                /\ Front(r.WindowQueue).StartTime = req.RequestSegmentStartTime ]_vars

\* the start times and values of a sequence of segments, newest first
PairsOf(q) == [ i \in 1..Len(q) |-> <<q[i].StartTime, q[i].Value>> ]

\* the segments of queue q that lie inside the window of a request with
\* timestamp t and segment start expected, other than the request's segment
OlderInWindow(c, q, t, expected) ==
    SelectSeq(q, LAMBDA e : e.StartTime < expected /\ e.StartTime + c.WindowSize > t)

\* the segments of queue q that the window of a request with timestamp t
\* has left behind
OutOfWindow(c, q, t) == SelectSeq(q, LAMBDA e : e.StartTime + c.WindowSize <= t)

\* rotateWindow on a queue with segments newer than the request's segment:
\* the newer segments are gone, their values are added to the segment at
\* the request's segment start, the older segments inside the window are
\* kept, and the total has lost the values of the segments out of the window
FutureLoadRestored(c, tn, req) ==
    \A r \in { rotateWindow(c, tn, req) } :
       /\ PairsOf(r.WindowQueue) =
             << << req.RequestSegmentStartTime,
                   USumValues(SelectSeq(tn.WindowQueue,
                        LAMBDA e : e.StartTime >= req.RequestSegmentStartTime)) >> >>
             \o PairsOf(OlderInWindow(c, tn.WindowQueue, req.RequestedTimestamp,
                                      req.RequestSegmentStartTime))
       /\ r.WindowTotal =
             USub(tn.WindowTotal,
                  USumValues(OutOfWindow(c, tn.WindowQueue, req.RequestedTimestamp)))

\* C35: when rotateWindow finds segments newer than the request's segment,
\* it removes them and adds the sum of their values to the request's
\* segment; the load still inside the window is kept, and WindowTotal
\* changes only by the values of the segments that left the window
C35_FutureLoadRestored ==
    [][ /\ mode \in {"standalone", "earlyStandalone"}
        /\ now' = now
        /\ futureSegments(tenants[1].WindowQueue,
                          locateSegmentStartTime(cfg[1], last'.t)) > 0
        => FutureLoadRestored(cfg[1], tenants[1],
                              buildLoadRequest(cfg[1], last'.t, last'.load)) ]_vars

\* C36: in every state reachable through public operations, computeRetryIn
\* called by the rejection of a load not above MaxLoad neither returns its
\* inconsistency error nor panics: the rejection carries a retry hint
C36_RetryInIsComputed ==
    [][ /\ mode = "early"
        /\ now' = now
        /\ last'.op = "submit"
        /\ ~last'.res.Accepted
        /\ last'.load <= cfg[1].MaxLoad
        /\ ~cfg[1].SkipRetryInComputing
        => /\ ~last'.panic
           /\ last'.res.RetryInAvailable ]_vars

\* C37: for every load of the unsigned 64-bit range above MaxLoad and every
\* tenant state, Probe returns false and Submit rejects: the comparison of
\* WindowTotal + load with MaxLoad is not affected by the wrap of the sum
C37_ExcessiveLoadNeverAccepted ==
    [][ /\ mode = "sequential"
        /\ now' = now
        /\ last'.op \in {"probe", "submit"}
        /\ last'.load > cfg[1].MaxLoad
        => ~last'.res.Accepted ]_vars

\* the value held at start time st by the segments of queue q, 0 when none
ValueAt(q, st) == USumValues(SelectSeq(q, LAMBDA e : e.StartTime = st))

\* distributePenalty of amount over span on the rotated tenant tn: the
\* newest min(amount, span) segments are contiguous and end at the request's
\* segment, each has gained at least 1, the gains do not increase from
\* newest to oldest and differ by at most 1, they sum to amount as does the
\* gain of WindowTotal, and the older segments are those held before
PenaltyDistributed(c, tn, req, amount, span) ==
    \A r \in { distributePenalty(c, tn, req, amount, span) } :
    \A n \in { Min(amount, span) } :
       /\ Len(r.WindowQueue) >= n
       /\ \A i \in 1..n :
             r.WindowQueue[i].StartTime =
                 req.RequestSegmentStartTime - (i - 1) * c.WindowSegmentSize
       /\ \A g \in { [ i \in 1..n |->
                         USub(r.WindowQueue[i].Value,
                              ValueAt(tn.WindowQueue, r.WindowQueue[i].StartTime)) ] } :
             /\ \A i \in 1..n : g[i] >= 1
             /\ \A i \in 1..(n - 1) : g[i] >= g[i + 1]
             /\ g[1] - g[n] <= 1
             /\ USumSeq(g) = amount
       /\ r.WindowTotal = UAdd(tn.WindowTotal, amount)
       /\ PairsOf(SubSeq(r.WindowQueue, n + 1, Len(r.WindowQueue))) =
             PairsOf(SelectSeq(tn.WindowQueue,
                        LAMBDA e : e.StartTime <
                            req.RequestSegmentStartTime - (n - 1) * c.WindowSegmentSize))

\* the step is a rejected Submit of the limiter that adds a penalty
PenaltyAdded ==
    /\ now' = now
    /\ last'.op = "submit"
    /\ ~last'.res.Accepted
    /\ last'.penalty # "none"

\* C38: distributing a penalty of amount A >= 1 over a span N >= 1 touches
\* exactly the min(A, N) newest contiguous segments ending at the request's
\* segment, adds at least 1 to each, non-increasing from newest to oldest
\* and differing by at most 1, increases WindowTotal by exactly A, and
\* keeps the values already present and all older segments
C38_PenaltyDistribution ==
    [][ mode = "early" /\ PenaltyAdded =>
          \A req \in { buildLoadRequest(cfg[1], last'.t, last'.load) } :
          \A tn \in { rotateWindow(cfg[1], tenants[1], req) } :
          \A p \in { rejectPenalty(cfg[1], tn, req) } :
             PenaltyDistributed(cfg[1], tn, req, p.amount, p.span) ]_vars

\* applyCapping on the tenant tn whose WindowTotal exceeds the cap: the
\* excess is taken from the back of the queue, the segments emptied are
\* dropped, the segments before the last one touched are as they were, the
\* total is the cap and the queue is not empty
CappedFromOldest(c, tn, req) ==
    \A r \in { applyCapping(c, tn, req) } :
    \A m \in { Len(r.WindowQueue) } :
       /\ r.WindowTotal = c.AbsoluteMaxPenaltyCap
       /\ m >= 1
       /\ m <= Len(tn.WindowQueue)
       /\ PairsOf(SubSeq(r.WindowQueue, 1, m - 1)) = PairsOf(SubSeq(tn.WindowQueue, 1, m - 1))
       /\ r.WindowQueue[m].StartTime = tn.WindowQueue[m].StartTime
       /\ r.WindowQueue[m].Value <= tn.WindowQueue[m].Value
       /\ r.WindowQueue[m].Value = tn.WindowQueue[m].Value \/ r.WindowQueue[m].Value > 0
       /\ (tn.WindowQueue[m].Value - r.WindowQueue[m].Value)
            + SumOfValues(SubSeq(tn.WindowQueue, m + 1, Len(tn.WindowQueue)))
          = tn.WindowTotal - c.AbsoluteMaxPenaltyCap

\* C39: when WindowTotal exceeds AbsoluteMaxPenaltyCap, capping removes
\* exactly the excess, from the oldest segments first and dropping every
\* segment it empties: afterwards WindowTotal equals the cap, newer
\* segments are untouched until the older ones are exhausted, and the queue
\* is not left empty
C39_CappingRemovesExcess ==
    [][ mode = "early" /\ PenaltyAdded =>
          \A req \in { buildLoadRequest(cfg[1], last'.t, last'.load) } :
          \A tn \in { rotateWindow(cfg[1], tenants[1], req) } :
          \A p \in { rejectPenalty(cfg[1], tn, req) } :
          \A pn \in { [distributePenalty(cfg[1], tn, req, p.amount, p.span)
                          EXCEPT !.WasOver = TRUE] } :
             pn.WindowTotal > cfg[1].AbsoluteMaxPenaltyCap =>
                 CappedFromOldest(cfg[1], pn, req) ]_vars

\* C40: across any sequence of public operations and sync restores,
\* successful or failed, the version of a tenant never decreases
C40_VersionNeverDecreases ==
    [][ \A i \in Instances : tenants'[i].Version >= tenants[i].Version ]_vars

\* the second call is a Stats of the second peer that restored what the
\* Submit of the first peer wrote
C40_Witness ==
    /\ mode = "adapter"
    /\ calls = 2
    /\ last.op = "stats"
    /\ last.inst = 2
    /\ tx.faults = {}
    /\ tenants[2].Version >= 3
    /\ store = serializeStatus(tenants[2])

\* a Probe on a tenant that is ahead of the stored payload: its restore
\* fails on the stale version
C40_WitnessStale ==
    /\ IsPeerAdapter(mode)
    /\ calls = 3
    /\ last.op = "probe"
    /\ Transacted
    /\ tx.faults = {}
    /\ store # NoStatus
    /\ store[2] + 1 < tenants[last.inst].Version

====
